---- MODULE Spec2Model ----
(***************************************************************************)
(* State-machine model of the ARCHIVED backend (FastAPI + SQLAlchemy):     *)
(* users, collections, items, images, tags and share links, with one       *)
(* action per HTTP handler.  Each handler is given by the response it     *)
(* returns, an operator of the stored state and the request, and by the    *)
(* action it performs on the tables.  A handler that raises HTTPException  *)
(* commits nothing: the session is closed without commit.                  *)
(***************************************************************************)
EXTENDS Integers, Sequences, FiniteSets, TLC

VARIABLES
    users,        \* users table:        id -> [username, email, hashed_password]
    collections,  \* collections table:  id -> [owner_id, collection_order, created_date, updated_date]
    items,        \* items table:        id -> [collection_id, item_order, created_date, updated_date]
    images,       \* item_images table:  id -> [item_id, image_order]
    tags,         \* tags table:         id -> name
    item_tags,    \* item_tags association table: <<item_id, tag_id>> -> number of rows
    shares,       \* collection_shares:  id -> [collection_id, token, is_enabled, created_date, updated_date]
    next_id,      \* storage id sequences, one per table
    minted,       \* number of uuid4().hex values drawn so far
    now,          \* the wall clock read by datetime.now(timezone.utc)
    inflight,     \* requests being served step by step, each in its own session
    uploads,      \* ids of the image rows whose file is in settings.UPLOAD_DIR
    rate_limit_store,  \* contact.rate_limit_store: ip_address -> [count, window_start]
    accepted,     \* log of the contact submissions that passed the limit: <<ip, time>> -> number
    issued        \* log of the access tokens built: <<sub, id of the user it was built for>>

dbVars == <<users, collections, items, images, tags, item_tags, shares>>
hostVars == <<rate_limit_store, accepted, issued>>
vars == <<users, collections, items, images, tags, item_tags, shares,
          next_id, minted, now, inflight, uploads, rate_limit_store, accepted, issued>>

(***************************************************************************)
(* Bounds of the model.                                                    *)
(***************************************************************************)
MaxUsers == 2
MaxCollections == 2
MaxItems == 3
MaxImages == 2
MaxTags == 2
MaxTokens == 2
MaxClock == 5
MaxList == 3
MaxPairs == 1
MaxFiles == 1
MaxTagList == 1
MaxImageOrder == 1
MaxOwned == 1
MaxImageEdits == 1
MaxImageList == 2
MaxTagBody == 2
MaxRequests == 2
MaxTime == 3

\* SQL NULL / Python None
NULL == -1

Usernames == {"alice", "bob"}
Emails == {"alice@x.com", "bob@x.com"}

UserIds == 1..MaxUsers
CollectionIds == 1..MaxCollections
ItemIds == 1..MaxItems
ImageIds == 1..MaxImages
Tokens == 1..MaxTokens

\* Sequences over S of length at most n
SeqsUpTo(S, n) == UNION {[1..k -> S] : k \in 0..n}

Range(s) == {s[k] : k \in DOMAIN s}

(***************************************************************************)
(* Responses.  status and detail are what HTTPException carries; ids is    *)
(* the set of entities in a returned body; token is a returned share token *)
(* (0 when the response has none).                                         *)
(***************************************************************************)
Response(status, detail, ids, token) ==
    [status |-> status, detail |-> detail, ids |-> ids, token |-> token]

Ok(status, ids) == Response(status, "", ids, 0)

HTTPException(status, detail) == Response(status, detail, {}, 0)

\* A raised HTTPException: the session is closed without commit.
NoCommit == UNCHANGED vars

(***************************************************************************)
(* Queries.                                                                *)
(***************************************************************************)
\* db.query(CollectionModel).filter(owner_id == u).all()
UserCollections(u) == {c \in DOMAIN collections : collections[c].owner_id = u}

\* db.query(ItemModel).filter(collection_id == c).all()
CollectionItems(c) == {i \in DOMAIN items : items[i].collection_id = c}

\* db.query(ItemImageModel).filter(item_id == i).all()
ItemImages(i) == {m \in DOMAIN images : images[m].item_id = i}

\* item.tags
ItemTags(i) == {p[2] : p \in {q \in DOMAIN item_tags : q[1] = i}}

\* func.max(...).scalar(): None over no rows
func_max(S) == IF S = {} THEN NULL ELSE CHOOSE m \in S : \A x \in S : x <= m

\* Python `x or 0`
or_zero(x) == IF x = NULL \/ x = 0 THEN 0 ELSE x

\* next_order = (max_order or 0) + 1
next_order(S) == or_zero(func_max(S)) + 1

\* variant of enumerate that counts from 1 (enumerate(..., start=1))
enumerate_from_one(k) == k

\* enumerate(...): the order paired with the k-th element of a list (k from 1)
enumerate(k) == k - 1

\* variant of share_of that never finds the row of the collection
share_of_none(c) == NULL

\* db.query(CollectionShareModel).filter(collection_id == c).first()
share_of(c) ==
    LET rows == {s \in DOMAIN shares : shares[s].collection_id = c}
    IN IF rows = {} THEN NULL ELSE CHOOSE s \in rows : \A x \in rows : s <= x

\* variant of enabled_share without the is_enabled filter
share_by_token(t) ==
    LET rows == {s \in DOMAIN shares : shares[s].token = t}
    IN IF rows = {} THEN NULL ELSE CHOOSE s \in rows : \A x \in rows : s <= x

\* db.query(CollectionShareModel).filter(token == t, is_enabled == True).first()
enabled_share(t) ==
    LET rows == {s \in DOMAIN shares : shares[s].token = t /\ shares[s].is_enabled}
    IN IF rows = {} THEN NULL ELSE CHOOSE s \in rows : \A x \in rows : s <= x

Remove(f, S) == [x \in DOMAIN f \ S |-> f[x]]

(***************************************************************************)
(* Ownership resolvers (routers/utils.py).  Each returns the response of   *)
(* its failure, or status 200.                                             *)
(***************************************************************************)
Found == Ok(200, {})
NotFound(detail) == HTTPException(404, detail)

\* variant of verify_collection that tells a collection of another user
\* (403) from one that does not exist (404)
verify_collection_forbidden(u, c) ==
    IF c \notin DOMAIN collections
    THEN NotFound("Collection not found or you don't have access to it")
    ELSE IF collections[c].owner_id # u
    THEN HTTPException(403, "Not authorized to access this collection")
    ELSE Found

\* variant of verify_item without the join on the owner
verify_item_any_owner(u, i) ==
    IF i \in DOMAIN items
    THEN Found
    ELSE NotFound("Item not found or you don't have access to it")

\* db.query(CollectionModel).filter(id == c, owner_id == u).first()
OwnedCollection(u, c) == c \in DOMAIN collections /\ collections[c].owner_id = u

verify_collection(u, c) ==
    IF OwnedCollection(u, c)
    THEN Found
    ELSE NotFound("Collection not found or you don't have access to it")

\* db.query(ItemModel).join(CollectionModel).filter(id == i, owner_id == u)
OwnedItem(u, i) ==
    /\ i \in DOMAIN items
    /\ items[i].collection_id \in DOMAIN collections
    /\ collections[items[i].collection_id].owner_id = u

verify_item(u, i) ==
    IF OwnedItem(u, i)
    THEN Found
    ELSE NotFound("Item not found or you don't have access to it")

verify_item_image(u, m) ==
    IF m \notin DOMAIN images
    THEN NotFound("Image not found")
    ELSE IF ~OwnedItem(u, images[m].item_id)
    THEN NotFound("Item not found or you don't have access to it")
    ELSE Found

(***************************************************************************)
(* Response bodies: the entities a serialized Collection / Item contains.  *)
(***************************************************************************)
item_body(i) ==
    {<<"item", i>>} \cup {<<"image", m>> : m \in ItemImages(i)}
                    \cup {<<"tag", t>> : t \in ItemTags(i)}

collection_body(c) ==
    {<<"collection", c>>} \cup UNION {item_body(i) : i \in CollectionItems(c)}

(***************************************************************************)
(* POST /auth/register                                                     *)
(***************************************************************************)
get_password_hash(password) == <<"bcrypt", password>>

verify_password(plain_password, hashed_password) ==
    hashed_password = get_password_hash(plain_password)

register_user_response(username, email) ==
    IF \E u \in DOMAIN users : users[u].username = username
    THEN HTTPException(400, "Username already registered")
    ELSE IF \E u \in DOMAIN users : users[u].email = email
    THEN HTTPException(400, "Email already registered")
    ELSE Ok(201, {<<"user", next_id.user>>})

register_user(username, email, password) ==
    IF register_user_response(username, email).status # 201
    THEN NoCommit
    ELSE
        /\ next_id.user <= MaxUsers
        /\ users' = users @@ (next_id.user :>
                    [username |-> username, email |-> email,
                     hashed_password |-> get_password_hash(password)])
        /\ next_id' = [next_id EXCEPT !.user = @ + 1]
        /\ UNCHANGED <<hostVars, uploads, inflight, collections, items, images, tags, item_tags, shares, minted, now>>

(***************************************************************************)
(* POST /users/me/collections                                              *)
(***************************************************************************)
create_collection_response(u) == Ok(201, {<<"collection", next_id.collection>>})

create_collection(u) ==
    /\ u \in DOMAIN users
    /\ now < MaxClock
    /\ now' = now + 1
    /\ next_id.collection <= MaxCollections
    /\ collections' = collections @@ (next_id.collection :>
            [owner_id |-> u,
             collection_order |->
                next_order({collections[c].collection_order : c \in UserCollections(u)}),
             created_date |-> now', updated_date |-> now'])
    /\ next_id' = [next_id EXCEPT !.collection = @ + 1]
    /\ UNCHANGED <<hostVars, uploads, inflight, users, items, images, tags, item_tags, shares, minted>>

(***************************************************************************)
(* POST /collections/{collection_id}/items                                 *)
(***************************************************************************)
create_item_response(u, c) ==
    IF verify_collection(u, c).status # 200
    THEN verify_collection(u, c)
    ELSE Ok(201, {<<"item", next_id.item>>})

create_item(u, c) ==
    /\ u \in DOMAIN users
    /\ IF create_item_response(u, c).status # 201
       THEN NoCommit
       ELSE
        /\ now < MaxClock
        /\ now' = now + 1
        /\ next_id.item <= MaxItems
        /\ items' = items @@ (next_id.item :>
                [collection_id |-> c,
                 item_order |-> next_order({items[i].item_order : i \in CollectionItems(c)}),
                 created_date |-> now', updated_date |-> now'])
        /\ collections' = [collections EXCEPT ![c].updated_date = now']
        /\ next_id' = [next_id EXCEPT !.item = @ + 1]
        /\ UNCHANGED <<hostVars, uploads, inflight, users, images, tags, item_tags, shares, minted>>

(***************************************************************************)
(* PATCH /users/me/collections/order                                       *)
(***************************************************************************)
update_collection_order_response(u, order_update) ==
    IF Len(order_update) = 0
    THEN HTTPException(400, "No collection orders provided")
    ELSE IF UserCollections(u) # Range(order_update)
    THEN HTTPException(400,
            "Collection IDs in order update must match exactly with current collections")
    ELSE Ok(200, {<<"collection", c>> : c \in UserCollections(u)})

\* for order, collection_id in enumerate(order_update): ... (users.py 251-259)
RECURSIVE apply_collection_order(_, _, _, _, _)
apply_collection_order(cols, u, order_update, k, t) ==
    IF k > Len(order_update)
    THEN cols
    ELSE LET cid == order_update[k]
             hit == cid \in DOMAIN cols /\ cols[cid].owner_id = u
         IN apply_collection_order(
                IF hit
                THEN [cols EXCEPT ![cid].collection_order = enumerate(k),
                                  ![cid].updated_date = t]
                ELSE cols,
                u, order_update, k + 1, t)

update_collection_order(u, order_update) ==
    /\ u \in DOMAIN users
    /\ IF update_collection_order_response(u, order_update).status # 200
       THEN NoCommit
       ELSE
        /\ now < MaxClock
        /\ now' = now + 1
        /\ collections' = apply_collection_order(collections, u, order_update, 1, now')
        /\ UNCHANGED <<hostVars, uploads, inflight, users, items, images, tags, item_tags, shares, next_id, minted>>

(***************************************************************************)
(* PATCH /collections/{collection_id}/items/order                          *)
(***************************************************************************)
\* The request body as sent: either {"item_ids": [...]} or
\* {"item_orders": [{"id":..., "item_order":...}, ...]}.
ItemIdsBody(ids) == [field |-> "item_ids", item_ids |-> ids]
ItemOrdersBody(pairs) == [field |-> "item_orders", item_orders |-> pairs]

\* variant of ItemOrderUpdate without min_length=1
ItemOrderUpdate_any_length(body) ==
    IF body.field # "item_ids"
    THEN "Field required"
    ELSE IF Len(body.item_ids) # Cardinality(Range(body.item_ids))
    THEN "Item IDs must be unique"
    ELSE IF \E k \in DOMAIN body.item_ids : body.item_ids[k] <= 0
    THEN "All item IDs must be positive integers"
    ELSE ""

\* schemas.ItemOrderUpdate: item_ids is required (Field(...)), min_length=1,
\* and validate_item_ids; any other field of the body is ignored.
ItemOrderUpdate(body) ==
    IF body.field # "item_ids"
    THEN "Field required"
    ELSE IF Len(body.item_ids) < 1
    THEN "List should have at least 1 item"
    ELSE IF Len(body.item_ids) # Cardinality(Range(body.item_ids))
    THEN "Item IDs must be unique"
    ELSE IF \E k \in DOMAIN body.item_ids : body.item_ids[k] <= 0
    THEN "All item IDs must be positive integers"
    ELSE ""

update_item_order_response(u, c, body) ==
    IF ItemOrderUpdate(body) # ""
    THEN HTTPException(422, ItemOrderUpdate(body))
    ELSE IF verify_collection(u, c).status # 200
    THEN verify_collection(u, c)
    ELSE IF CollectionItems(c) # Range(body.item_ids)
    THEN HTTPException(400,
            "Item IDs in order update must match exactly with current collection items")
    ELSE Ok(200, {<<"item", i>> : i \in CollectionItems(c)})

\* for order, item_id in enumerate(order_update.item_ids): ... (collections.py 274-282)
RECURSIVE apply_item_order(_, _, _, _, _)
apply_item_order(its, c, item_ids, k, t) ==
    IF k > Len(item_ids)
    THEN its
    ELSE LET iid == item_ids[k]
             hit == iid \in DOMAIN its /\ its[iid].collection_id = c
         IN apply_item_order(
                IF hit
                THEN [its EXCEPT ![iid].item_order = enumerate(k), ![iid].updated_date = t]
                ELSE its,
                c, item_ids, k + 1, t)

update_item_order(u, c, body) ==
    /\ u \in DOMAIN users
    /\ IF update_item_order_response(u, c, body).status # 200
       THEN NoCommit
       ELSE
        /\ now < MaxClock
        /\ now' = now + 1
        /\ items' = apply_item_order(items, c, body.item_ids, 1, now')
        /\ collections' = [collections EXCEPT ![c].updated_date = now']
        /\ UNCHANGED <<hostVars, uploads, inflight, users, images, tags, item_tags, shares, next_id, minted>>

(***************************************************************************)
(* DELETE /collections/{collection_id}                                     *)
(* Collection.items has no delete cascade: the unit of work sets the       *)
(* collection_id of the collection's items to NULL (an UPDATE, so their    *)
(* onupdate timestamp fires).  collection_shares rows are not touched: a   *)
(* share row of the collection makes the DELETE fail on its foreign key    *)
(* where the database enforces foreign keys (the unhandled IntegrityError  *)
(* is a 500 and nothing is committed), and is left behind where it does    *)
(* not.                                                                    *)
(***************************************************************************)
nullify_items(its, cs, t) ==
    [i \in DOMAIN its |->
        IF its[i].collection_id \in cs
        THEN [its[i] EXCEPT !.collection_id = NULL, !.updated_date = t]
        ELSE its[i]]

delete_collection_response(u, c, foreign_keys) ==
    IF verify_collection(u, c).status # 200
    THEN verify_collection(u, c)
    ELSE IF foreign_keys /\ share_of(c) # NULL
    THEN HTTPException(500, "Internal Server Error")
    ELSE Ok(204, {})

delete_collection(u, c) ==
    /\ u \in DOMAIN users
    /\ \E foreign_keys \in BOOLEAN :
        IF delete_collection_response(u, c, foreign_keys).status # 204
        THEN NoCommit
        ELSE
            /\ IF CollectionItems(c) = {}
               THEN UNCHANGED <<items, now>>
               ELSE /\ now < MaxClock
                    /\ now' = now + 1
                    /\ items' = nullify_items(items, {c}, now')
            /\ collections' = Remove(collections, {c})
            /\ UNCHANGED <<hostVars, uploads, inflight, users, images, tags, item_tags, shares, next_id, minted>>

(***************************************************************************)
(* DELETE /items/{item_id}                                                 *)
(* Item.images has no delete cascade (item_id of the images becomes NULL); *)
(* the rows of the secondary table item_tags are deleted with the item.    *)
(***************************************************************************)
nullify_images(ims, is) ==
    [m \in DOMAIN ims |->
        IF ims[m].item_id \in is THEN [ims[m] EXCEPT !.item_id = NULL] ELSE ims[m]]

delete_item_response(u, i) ==
    IF verify_item(u, i).status # 200 THEN verify_item(u, i) ELSE Ok(204, {})

delete_item(u, i) ==
    /\ u \in DOMAIN users
    /\ IF delete_item_response(u, i).status # 204
       THEN NoCommit
       ELSE
        /\ items' = Remove(items, {i})
        /\ images' = nullify_images(images, {i})
        /\ item_tags' = [p \in {q \in DOMAIN item_tags : q[1] # i} |-> item_tags[p]]
        /\ UNCHANGED <<hostVars, uploads, inflight, users, collections, tags, shares, next_id, minted, now>>

(***************************************************************************)
(* DELETE /images/{image_id}                                               *)
(***************************************************************************)
delete_item_image_response(u, m) ==
    IF m \notin DOMAIN images
    THEN HTTPException(404, "Image not found")
    ELSE IF ~OwnedItem(u, images[m].item_id)
    THEN HTTPException(404, "Item not found or you don't have access to it")
    ELSE Ok(204, {})

delete_item_image(u, m) ==
    /\ u \in DOMAIN users
    /\ IF delete_item_image_response(u, m).status # 204
       THEN NoCommit
       ELSE
        /\ images' = Remove(images, {m})
        /\ uploads' = uploads \ {m}
        /\ UNCHANGED <<hostVars, inflight, users, collections, items, tags, item_tags, shares,
                       next_id, minted, now>>

(***************************************************************************)
(* GET /users/me/collections, GET /collections/{id},                       *)
(* GET /collections/{id}/items, GET /items/{id}, GET /items/{id}/tags,     *)
(* GET /items/{id}/images: a read commits nothing.                         *)
(***************************************************************************)
get_collections_response(u) ==
    Ok(200, UNION {collection_body(c) : c \in UserCollections(u)})

get_collections(u) ==
    /\ u \in DOMAIN users
    /\ get_collections_response(u).status \in {200, 404}
    /\ NoCommit

get_collection_response(u, c) ==
    IF c \in DOMAIN collections /\ collections[c].owner_id = u
    THEN Ok(200, collection_body(c))
    ELSE HTTPException(404, "Collection not found or you don't have access to it")

get_collection(u, c) ==
    /\ u \in DOMAIN users
    /\ get_collection_response(u, c).status \in {200, 404}
    /\ NoCommit

get_collection_items_response(u, c) ==
    IF verify_collection(u, c).status # 200
    THEN verify_collection(u, c)
    ELSE Ok(200, UNION {item_body(i) : i \in CollectionItems(c)})

get_collection_items(u, c) ==
    /\ u \in DOMAIN users
    /\ get_collection_items_response(u, c).status \in {200, 404}
    /\ NoCommit

get_item_response(u, i) ==
    IF verify_item(u, i).status # 200 THEN verify_item(u, i) ELSE Ok(200, item_body(i))

get_item(u, i) ==
    /\ u \in DOMAIN users
    /\ get_item_response(u, i).status \in {200, 404}
    /\ NoCommit

get_item_tags_response(u, i) ==
    IF verify_item(u, i).status # 200
    THEN verify_item(u, i)
    ELSE Ok(200, {<<"tag", t>> : t \in ItemTags(i)})

get_item_tags(u, i) ==
    /\ u \in DOMAIN users
    /\ get_item_tags_response(u, i).status \in {200, 404}
    /\ NoCommit

get_item_images_response(u, i) ==
    IF verify_item(u, i).status # 200
    THEN verify_item(u, i)
    ELSE Ok(200, {<<"image", m>> : m \in ItemImages(i)})

get_item_images(u, i) ==
    /\ u \in DOMAIN users
    /\ get_item_images_response(u, i).status \in {200, 404}
    /\ NoCommit

(***************************************************************************)
(* PATCH /collections/{collection_id} and PATCH /items/{item_id}           *)
(* (name and description are free text that no handler reads back; the     *)
(* tables of the model carry the timestamp the handlers set)               *)
(***************************************************************************)
update_collection_response(u, c) ==
    IF verify_collection(u, c).status # 200
    THEN verify_collection(u, c)
    ELSE Ok(200, collection_body(c))

update_collection(u, c) ==
    /\ u \in DOMAIN users
    /\ IF update_collection_response(u, c).status # 200
       THEN NoCommit
       ELSE
        /\ now < MaxClock
        /\ now' = now + 1
        /\ collections' = [collections EXCEPT ![c].updated_date = now']
        /\ UNCHANGED <<hostVars, uploads, inflight, users, items, images, tags, item_tags, shares, next_id, minted>>

update_item_response(u, i) ==
    IF verify_item(u, i).status # 200 THEN verify_item(u, i) ELSE Ok(200, item_body(i))

\* variant of update_item that stamps the collection of the item as well
update_item_and_collection(u, i) ==
    /\ u \in DOMAIN users
    /\ IF update_item_response(u, i).status # 200
       THEN NoCommit
       ELSE
        /\ now < MaxClock
        /\ now' = now + 1
        /\ items' = [items EXCEPT ![i].updated_date = now']
        /\ collections' = [collections EXCEPT ![items[i].collection_id].updated_date = now']
        /\ UNCHANGED <<hostVars, uploads, inflight, users, images, tags, item_tags, shares, next_id, minted>>

update_item(u, i) ==
    /\ u \in DOMAIN users
    /\ IF update_item_response(u, i).status # 200
       THEN NoCommit
       ELSE
        /\ now < MaxClock
        /\ now' = now + 1
        /\ items' = [items EXCEPT ![i].updated_date = now']
        /\ UNCHANGED <<hostVars, uploads, inflight, users, collections, images, tags, item_tags, shares, next_id, minted>>

(***************************************************************************)
(* POST /items/{item_id}/tags and DELETE /items/{item_id}/tags             *)
(***************************************************************************)
\* variant of get_or_create_tags that makes a Tag row for every name
RECURSIVE always_create_tags(_, _, _, _, _, _)
always_create_tags(tgs, assoc, nid, i, names, k) ==
    IF k > Len(names)
    THEN [tags |-> tgs, item_tags |-> assoc, next_tag |-> nid]
    ELSE always_create_tags(tgs @@ (nid :> names[k]), assoc @@ (<<i, nid>> :> 1),
                            nid + 1, i, names, k + 1)

\* variant of append_tag that appends whether or not the item has the tag
append_tag_always(assoc, i, t) ==
    IF <<i, t>> \in DOMAIN assoc
    THEN [assoc EXCEPT ![<<i, t>>] = @ + 1]
    ELSE assoc @@ (<<i, t>> :> 1)

\* if tag not in item.tags: item.tags.append(tag).  item_tags gives, for an
\* (item, tag) pair, the number of rows of the secondary table that hold it.
append_tag(assoc, i, t) ==
    IF <<i, t>> \in DOMAIN assoc THEN assoc ELSE assoc @@ (<<i, t>> :> 1)

\* for tag_name in tag_data.tags: get or create, then associate (items.py 208-219)
RECURSIVE get_or_create_tags(_, _, _, _, _, _)
get_or_create_tags(tgs, assoc, nid, i, names, k) ==
    IF k > Len(names)
    THEN [tags |-> tgs, item_tags |-> assoc, next_tag |-> nid]
    ELSE LET existing == {t \in DOMAIN tgs : tgs[t] = names[k]}
         IN IF existing = {}
            THEN get_or_create_tags(tgs @@ (nid :> names[k]), append_tag(assoc, i, nid),
                                    nid + 1, i, names, k + 1)
            ELSE LET tag == CHOOSE t \in existing : \A x \in existing : t <= x
                 IN get_or_create_tags(tgs, append_tag(assoc, i, tag), nid, i, names,
                                       k + 1)

add_item_tags_response(u, i, names) ==
    IF verify_item(u, i).status # 200
    THEN verify_item(u, i)
    ELSE LET r == get_or_create_tags(tags, item_tags, next_id.tag, i, names, 1)
         IN Ok(200, {<<"tag", p[2]>> : p \in {q \in DOMAIN r.item_tags : q[1] = i}})

add_item_tags(u, i, names) ==
    /\ u \in DOMAIN users
    /\ IF add_item_tags_response(u, i, names).status # 200
       THEN NoCommit
       ELSE LET r == get_or_create_tags(tags, item_tags, next_id.tag, i, names, 1)
            IN /\ now < MaxClock
               /\ r.next_tag <= MaxTags + 1
               /\ now' = now + 1
               /\ items' = [items EXCEPT ![i].updated_date = now']
               /\ tags' = r.tags
               /\ item_tags' = r.item_tags
               /\ next_id' = [next_id EXCEPT !.tag = r.next_tag]
               /\ UNCHANGED <<hostVars, uploads, inflight, users, collections, images, shares, minted>>

delete_item_tags_response(u, i) ==
    IF verify_item(u, i).status # 200 THEN verify_item(u, i) ELSE Ok(200, {})

\* variant of delete_item_tags that deletes the Tag rows of the item too
delete_item_tags_and_rows(u, i) ==
    /\ u \in DOMAIN users
    /\ IF delete_item_tags_response(u, i).status # 200
       THEN NoCommit
       ELSE
        /\ now < MaxClock
        /\ now' = now + 1
        /\ items' = [items EXCEPT ![i].updated_date = now']
        /\ item_tags' = [p \in {q \in DOMAIN item_tags : q[1] # i} |-> item_tags[p]]
        /\ tags' = Remove(tags, ItemTags(i))
        /\ UNCHANGED <<hostVars, uploads, inflight, users, collections, images, shares, next_id, minted>>

delete_item_tags(u, i) ==
    /\ u \in DOMAIN users
    /\ IF delete_item_tags_response(u, i).status # 200
       THEN NoCommit
       ELSE
        /\ now < MaxClock
        /\ now' = now + 1
        /\ items' = [items EXCEPT ![i].updated_date = now']
        /\ item_tags' = [p \in {q \in DOMAIN item_tags : q[1] # i} |-> item_tags[p]]
        /\ UNCHANGED <<hostVars, uploads, inflight, users, collections, images, tags, shares, next_id, minted>>

(***************************************************************************)
(* POST /items/{item_id}/images/upload                                     *)
(***************************************************************************)
ALLOWED_EXTENSIONS == {".jpg", ".jpeg", ".png", ".gif", ".webp"}

\* validate_and_compress_files: the first file whose extension is not allowed
\* raises 400 (files are given by their extension)
validate_and_compress_files(files) ==
    IF \E k \in DOMAIN files : files[k] \notin ALLOWED_EXTENSIONS
    THEN "File type not allowed"
    ELSE ""

\* one ItemImageModel(image_url, item_id) per file; image_order takes the column default 0
new_images(first, n, i) ==
    [m \in first..(first + n - 1) |-> [item_id |-> i, image_order |-> 0]]

upload_item_images_response(u, i, files) ==
    IF Len(files) = 0
    THEN HTTPException(422, "Field required")
    ELSE IF verify_item(u, i).status # 200
    THEN verify_item(u, i)
    ELSE IF validate_and_compress_files(files) # ""
    THEN HTTPException(400, validate_and_compress_files(files))
    ELSE Ok(200, {<<"image", m>> :
                    m \in ItemImages(i) \cup (next_id.image..(next_id.image + Len(files) - 1))})

upload_item_images(u, i, files) ==
    /\ u \in DOMAIN users
    /\ IF upload_item_images_response(u, i, files).status # 200
       THEN NoCommit
       ELSE
        /\ now < MaxClock
        /\ now' = now + 1
        /\ items' = [items EXCEPT ![i].updated_date = now']
        /\ next_id.image + Len(files) <= MaxImages + 1
        /\ images' = images @@ new_images(next_id.image, Len(files), i)
        /\ uploads' = uploads \cup (next_id.image..(next_id.image + Len(files) - 1))
        /\ next_id' = [next_id EXCEPT !.image = @ + Len(files)]
        /\ UNCHANGED <<hostVars, inflight, users, collections, tags, item_tags, shares, minted>>

(***************************************************************************)
(* PATCH /items/{item_id}/images                                           *)
(* An entry of new_images_order is an int, a string of digits ("str") or a *)
(* temporary id "new-<v>" ("new").                                         *)
(***************************************************************************)
OrderEntry(kind, v) == [kind |-> kind, v |-> v]

\* variant of apply_image_order that passes over a bad entry and goes on
RECURSIVE apply_image_order_skip(_, _, _, _, _, _)
apply_image_order_skip(ims, order, k, temp_id_map, current_image_ids, found_image_ids) ==
    IF k > Len(order)
    THEN [detail |-> "", images |-> ims]
    ELSE IF order[k].kind = "new"
    THEN apply_image_order_skip(
            IF order[k].v \in DOMAIN temp_id_map
            THEN [ims EXCEPT ![temp_id_map[order[k].v]].image_order = enumerate(k)]
            ELSE ims,
            order, k + 1, temp_id_map, current_image_ids, found_image_ids)
    ELSE apply_image_order_skip(
            IF order[k].v \in current_image_ids \ found_image_ids
            THEN [ims EXCEPT ![order[k].v].image_order = enumerate(k)]
            ELSE ims,
            order, k + 1, temp_id_map, current_image_ids, found_image_ids)

\* 3. Update image order (items.py 468-488): the first bad entry raises
RECURSIVE apply_image_order(_, _, _, _, _, _)
apply_image_order(ims, order, k, temp_id_map, current_image_ids, found_image_ids) ==
    IF k > Len(order)
    THEN [detail |-> "", images |-> ims]
    ELSE IF order[k].kind = "new"
    THEN IF order[k].v \notin DOMAIN temp_id_map
         THEN [detail |-> "Unknown temp ID", images |-> ims]
         ELSE apply_image_order(
                [ims EXCEPT ![temp_id_map[order[k].v]].image_order = enumerate(k)],
                order, k + 1, temp_id_map, current_image_ids, found_image_ids)
    ELSE IF order[k].v \notin current_image_ids \/ order[k].v \in found_image_ids
    THEN [detail |-> "Invalid image ID in order", images |-> ims]
    ELSE apply_image_order(
                [ims EXCEPT ![order[k].v].image_order = enumerate(k)],
                order, k + 1, temp_id_map, current_image_ids, found_image_ids)

\* variant of temp_id_map that counts the files from one
temp_id_map_from_one(new_files) ==
    [k \in 1..Len(new_files) |-> next_id.image + k - 1]

\* 2. Upload new images (items.py 446-465): 'new-<k>' is the id flushed for
\* the k-th file, enumerate counting from 0
temp_id_map(new_files) ==
    [k \in 0..(Len(new_files) - 1) |-> next_id.image + k]

\* variant of update_item_images_result that deletes the images it finds and
\* passes over the ones it does not
update_item_images_found_only(u, i, deleted_item_images, new_files, new_images_order) ==
    LET current_image_ids == ItemImages(i)
        found_image_ids ==
            {m \in deleted_item_images :
                m \in DOMAIN images /\ OwnedItem(u, images[m].item_id)}
        r == apply_image_order(
                Remove(images, found_image_ids)
                    @@ new_images(next_id.image, Len(new_files), i),
                new_images_order, 1, temp_id_map(new_files), current_image_ids,
                    found_image_ids)
    IN IF r.detail # ""
       THEN [status |-> 400, detail |-> r.detail, images |-> images,
             removed |-> found_image_ids]
       ELSE [status |-> 200, detail |-> "", images |-> r.images,
             removed |-> found_image_ids]

\* the images table the handler would commit, with the detail of the error
\* it raises instead ("" when it raises none) and the images whose files the
\* deletion phase has removed from the upload directory by then
update_item_images_result(u, i, deleted_item_images, new_files, new_images_order) ==
    LET current_image_ids == ItemImages(i)
        integer_ids_in_order ==
            {new_images_order[k].v : k \in {x \in DOMAIN new_images_order :
                                              new_images_order[x].kind = "int"}}
        found_image_ids ==
            {m \in deleted_item_images :
                m \in DOMAIN images /\ OwnedItem(u, images[m].item_id)}
    IN
    IF integer_ids_in_order \ current_image_ids # {}
    THEN [status |-> 400, detail |-> "Invalid image IDs in order", images |-> images,
          removed |-> {}]
    ELSE IF deleted_item_images \ found_image_ids # {}
    THEN [status |-> 404, detail |-> "Images not found or you don't have access to them",
          images |-> images, removed |-> {}]
    ELSE LET r == apply_image_order(
                    Remove(images, found_image_ids)
                        @@ new_images(next_id.image, Len(new_files), i),
                    new_images_order, 1, temp_id_map(new_files), current_image_ids,
                    found_image_ids)
         IN IF r.detail # ""
            THEN [status |-> 400, detail |-> r.detail, images |-> images,
                  removed |-> found_image_ids]
            ELSE [status |-> 200, detail |-> "", images |-> r.images,
                  removed |-> found_image_ids]

update_item_images_response(u, i, deleted_item_images, new_files, new_images_order) ==
    IF verify_item(u, i).status # 200
    THEN verify_item(u, i)
    ELSE IF validate_and_compress_files(new_files) # ""
    THEN HTTPException(400, validate_and_compress_files(new_files))
    ELSE LET r == update_item_images_result(u, i, deleted_item_images, new_files,
                                            new_images_order)
         IN IF r.status # 200
            THEN HTTPException(r.status, r.detail)
            ELSE Ok(200, {<<"image", m>> : m \in {x \in DOMAIN r.images :
                                                    r.images[x].item_id = i}})

\* the files os.remove has deleted when the handler returns or raises: the
\* files are removed in the deletion phase, the database is written at the
\* commit only
update_item_images_removed(u, i, deleted_item_images, new_files, new_images_order) ==
    IF verify_item(u, i).status # 200 \/ validate_and_compress_files(new_files) # ""
    THEN {}
    ELSE update_item_images_result(u, i, deleted_item_images, new_files,
                                   new_images_order).removed

update_item_images(u, i, deleted_item_images, new_files, new_images_order) ==
    /\ u \in DOMAIN users
    /\ IF update_item_images_response(u, i, deleted_item_images, new_files,
                                      new_images_order).status # 200
       THEN /\ uploads' = uploads \ update_item_images_removed(u, i, deleted_item_images,
                                                               new_files, new_images_order)
            /\ UNCHANGED <<users, collections, items, images, tags, item_tags, shares,
                           next_id, minted, now, inflight, hostVars>>
       ELSE
        /\ now < MaxClock
        /\ now' = now + 1
        /\ items' = [items EXCEPT ![i].updated_date = now']
        /\ next_id.image + Len(new_files) <= MaxImages + 1
        /\ images' = update_item_images_result(u, i, deleted_item_images, new_files,
                                               new_images_order).images
        /\ uploads' = (uploads \ update_item_images_removed(u, i, deleted_item_images,
                                                             new_files, new_images_order))
                        \cup (next_id.image..(next_id.image + Len(new_files) - 1))
        /\ next_id' = [next_id EXCEPT !.image = @ + Len(new_files)]
        /\ UNCHANGED <<hostVars, inflight, users, collections, tags, item_tags, shares, minted>>

(***************************************************************************)
(* Share links (routers/share.py).  uuid4().hex is a token never drawn     *)
(* before.  A share row that a handler leaves as it was is not written, so *)
(* its onupdate timestamp does not move.                                   *)
(***************************************************************************)
\* variant of uuid4 that draws the last token again
uuid4_again == IF minted = 0 THEN 1 ELSE minted

uuid4 == minted + 1

create_or_enable_share_response(u, c, rotate) ==
    IF ~(c \in DOMAIN collections /\ collections[c].owner_id = u)
    THEN HTTPException(404, "Collection not found or you don't have access to it")
    ELSE IF share_of(c) # NULL /\ rotate
    THEN Response(200, "", {}, uuid4)
    ELSE IF share_of(c) # NULL
    THEN Response(200, "", {}, shares[share_of(c)].token)
    ELSE Response(200, "", {}, uuid4)

create_or_enable_share(u, c, rotate) ==
    /\ u \in DOMAIN users
    /\ IF create_or_enable_share_response(u, c, rotate).status # 200
       THEN NoCommit
       ELSE LET share == share_of(c) IN
        IF share # NULL /\ rotate
        THEN /\ minted < MaxTokens
             /\ now < MaxClock
             /\ now' = now + 1
             /\ shares' = [shares EXCEPT ![share].token = uuid4, ![share].is_enabled = TRUE,
                                         ![share].updated_date = now']
             /\ minted' = minted + 1
             /\ UNCHANGED <<hostVars, uploads, inflight, users, collections, items, images, tags, item_tags, next_id>>
        ELSE IF share # NULL /\ shares[share].is_enabled
        THEN NoCommit
        ELSE IF share # NULL
        THEN /\ now < MaxClock
             /\ now' = now + 1
             /\ shares' = [shares EXCEPT ![share].is_enabled = TRUE,
                                         ![share].updated_date = now']
             /\ UNCHANGED <<hostVars, uploads, inflight, users, collections, items, images, tags, item_tags,
                            next_id, minted>>
        ELSE /\ minted < MaxTokens
             /\ now < MaxClock
             /\ now' = now + 1
             /\ shares' = shares @@ (next_id.share :>
                    [collection_id |-> c, token |-> uuid4, is_enabled |-> TRUE,
                     created_date |-> now', updated_date |-> now'])
             /\ minted' = minted + 1
             /\ next_id' = [next_id EXCEPT !.share = @ + 1]
             /\ UNCHANGED <<hostVars, uploads, inflight, users, collections, items, images, tags, item_tags>>

\* db.query(CollectionShareModel).join(CollectionModel)
\*   .filter(collection_id == c, owner_id == u).first()
owned_share(u, c) ==
    IF c \in DOMAIN collections /\ collections[c].owner_id = u THEN share_of(c) ELSE NULL

disable_share_response(u, c) ==
    IF owned_share(u, c) = NULL
    THEN HTTPException(404, "Share link not found")
    ELSE Ok(200, {})

\* variant of disable_share that deletes the share row
disable_share_delete(u, c) ==
    /\ u \in DOMAIN users
    /\ IF disable_share_response(u, c).status # 200
       THEN NoCommit
       ELSE /\ shares' = Remove(shares, {owned_share(u, c)})
            /\ UNCHANGED <<hostVars, uploads, inflight, users, collections, items, images, tags, item_tags,
                           next_id, minted, now>>

disable_share(u, c) ==
    /\ u \in DOMAIN users
    /\ IF disable_share_response(u, c).status # 200
       THEN NoCommit
       ELSE IF ~shares[owned_share(u, c)].is_enabled
       THEN NoCommit
       ELSE /\ now < MaxClock
            /\ now' = now + 1
            /\ shares' = [shares EXCEPT ![owned_share(u, c)].is_enabled = FALSE,
                                        ![owned_share(u, c)].updated_date = now']
            /\ UNCHANGED <<hostVars, uploads, inflight, users, collections, items, images, tags, item_tags,
                           next_id, minted>>

get_shared_collection_response(token) ==
    IF enabled_share(token) = NULL
    THEN HTTPException(404, "Invalid or disabled share link")
    ELSE IF shares[enabled_share(token)].collection_id \notin DOMAIN collections
    THEN HTTPException(404, "Collection not found")
    ELSE Ok(200, collection_body(shares[enabled_share(token)].collection_id))

get_shared_collection(token) ==
    /\ get_shared_collection_response(token).status \in {200, 404}
    /\ NoCommit

\* variant of get_shared_item_response that looks the item up by id alone
get_shared_item_any_collection(token, i) ==
    IF enabled_share(token) = NULL
    THEN HTTPException(404, "Invalid or disabled share link")
    ELSE IF i \notin DOMAIN items
    THEN HTTPException(404, "Item not found in shared collection")
    ELSE Ok(200, item_body(i))

get_shared_item_response(token, i) ==
    IF enabled_share(token) = NULL
    THEN HTTPException(404, "Invalid or disabled share link")
    ELSE IF ~(i \in DOMAIN items
              /\ items[i].collection_id = shares[enabled_share(token)].collection_id)
    THEN HTTPException(404, "Item not found in shared collection")
    ELSE Ok(200, item_body(i))

get_shared_item(token, i) ==
    /\ get_shared_item_response(token, i).status \in {200, 404}
    /\ NoCommit

(***************************************************************************)
(* maintenance: cleanup_unused_tags(db)                                    *)
(* ~TagModel.items.any() selects the tags no item is associated with.      *)
(***************************************************************************)
\* variant of unused_tags that selects every tag
unused_tags_all == DOMAIN tags

unused_tags ==
    {t \in DOMAIN tags : ~ \E p \in DOMAIN item_tags : p[2] = t /\ p[1] \in DOMAIN items}

\* the count the function returns
cleanup_unused_tags_count == Cardinality(unused_tags)

cleanup_unused_tags ==
    /\ tags' = Remove(tags, unused_tags)
    /\ UNCHANGED <<hostVars, uploads, inflight, users, collections, items, images, item_tags, shares,
                   next_id, minted, now>>

(***************************************************************************)
(* Credentials (auth/auth_handler.py).  A bearer token is the JWT as the   *)
(* decoder sees it: whether the Authorization header carries one, its      *)
(* subject, whether its signature verifies and whether its exp has passed. *)
(***************************************************************************)
NoSub == ""
NoHeader == [header |-> FALSE, sub |-> NoSub, signed |-> FALSE, expired |-> FALSE]
BearerTokens ==
    {NoHeader} \cup
    [header : {TRUE}, sub : Usernames \cup {NoSub}, signed : BOOLEAN, expired : BOOLEAN]

\* db.query(User).filter(User.username == username).first()
get_user(username) ==
    LET rows == {u \in DOMAIN users : users[u].username = username}
    IN IF rows = {} THEN NULL ELSE CHOOSE u \in rows : \A x \in rows : u <= x

\* the user, or NULL for False
authenticate_user(username, password) ==
    LET user == get_user(username)
    IN IF user = NULL THEN NULL
       ELSE IF ~ verify_password(password, users[user].hashed_password) THEN NULL
       ELSE user

\* variant of jwt_decode that does not verify the signature
jwt_decode_unverified(token) == ~ token.expired

\* jwt.decode raises InvalidTokenError on a bad signature or a passed exp
jwt_decode(token) == token.signed /\ ~ token.expired

\* oauth2_scheme, then get_current_user
get_current_user_response(token) ==
    IF ~ token.header
    THEN HTTPException(401, "Not authenticated")
    ELSE IF ~ jwt_decode(token) \/ token.sub = NoSub
    THEN HTTPException(401, "Could not validate credentials")
    ELSE IF get_user(token.sub) = NULL
    THEN HTTPException(401, "Could not validate credentials")
    ELSE Ok(200, {<<"user", get_user(token.sub)>>})

\* Depends(get_current_user): the user the handler is called with, if any
get_current_user(token) ==
    IF get_current_user_response(token).status = 200 THEN {get_user(token.sub)} ELSE {}

\* a request the dependency refuses: the handler is not called
unauthorized(token) ==
    /\ get_current_user_response(token).status = 401
    /\ NoCommit

(***************************************************************************)
(* POST /auth/token and POST /auth/refresh                                 *)
(* Both call create_access_token(..., include_random=True), a keyword the  *)
(* function does not take: the TypeError is unhandled and answered 500.    *)
(***************************************************************************)
login_for_access_token_response(username, password) ==
    IF authenticate_user(username, password) = NULL
    THEN HTTPException(401, "Incorrect username or password")
    ELSE HTTPException(500, "Internal Server Error")

\* no row is written; the access token of auth.py 135-137 is built, with the
\* username as its subject, before the call of line 138 raises: the log
\* `issued` keeps for whom
login_for_access_token(username, password) ==
    /\ login_for_access_token_response(username, password).status \in {401, 500}
    /\ issued' = IF authenticate_user(username, password) = NULL
                 THEN issued
                 ELSE issued \cup {<<username, authenticate_user(username, password)>>}
    /\ UNCHANGED <<dbVars, next_id, minted, now, inflight, uploads,
                   rate_limit_store, accepted>>

refresh_access_token_response(refresh_token) ==
    IF ~ jwt_decode(refresh_token) \/ refresh_token.sub = NoSub
    THEN HTTPException(401, "Could not validate refresh token")
    ELSE IF get_user(refresh_token.sub) = NULL
    THEN HTTPException(401, "Could not validate refresh token")
    ELSE HTTPException(500, "Internal Server Error")

refresh_access_token(refresh_token) ==
    /\ refresh_access_token_response(refresh_token).status \in {401, 500}
    /\ NoCommit

(***************************************************************************)
(* PATCH /users/me                                                         *)
(***************************************************************************)
update_user_response(u, new_username, current_password) ==
    IF authenticate_user(users[u].username, current_password) = NULL
    THEN HTTPException(401, "Incorrect password")
    ELSE IF \E v \in DOMAIN users : users[v].username = new_username /\ v # u
    THEN HTTPException(400, "Username already taken")
    ELSE Ok(200, {<<"user", u>>})

update_user(u, new_username, current_password) ==
    /\ u \in DOMAIN users
    /\ IF update_user_response(u, new_username, current_password).status # 200
       THEN NoCommit
       ELSE
        /\ users' = [users EXCEPT ![u].username = new_username]
        /\ UNCHANGED <<hostVars, uploads, inflight, collections, items, images, tags, item_tags, shares,
                       next_id, minted, now>>

(***************************************************************************)
(* DELETE /users/me                                                        *)
(* User.collections cascades the delete to the user's collections; each of *)
(* them is deleted as DELETE /collections/{id} deletes it: its items stay  *)
(* with collection_id NULL and its share row is not touched.               *)
(***************************************************************************)
delete_account_response(u, current_password, foreign_keys) ==
    IF authenticate_user(users[u].username, current_password) = NULL
    THEN HTTPException(401, "Incorrect password")
    ELSE IF foreign_keys /\ \E c \in UserCollections(u) : share_of(c) # NULL
    THEN HTTPException(500, "Internal Server Error")
    ELSE Ok(204, {})

delete_account(u, current_password) ==
    /\ u \in DOMAIN users
    /\ \E foreign_keys \in BOOLEAN :
        IF delete_account_response(u, current_password, foreign_keys).status # 204
        THEN NoCommit
        ELSE
            /\ IF \A c \in UserCollections(u) : CollectionItems(c) = {}
               THEN UNCHANGED <<items, now>>
               ELSE /\ now < MaxClock
                    /\ now' = now + 1
                    /\ items' = nullify_items(items, UserCollections(u), now')
            /\ collections' = Remove(collections, UserCollections(u))
            /\ users' = Remove(users, {u})
            /\ UNCHANGED <<hostVars, uploads, inflight, images, tags, item_tags, shares, next_id, minted>>

(***************************************************************************)
(* Contact form (routers/contact.py).  rate_limit_store is a dictionary of *)
(* the process: address -> (count, window_start).  The two limits are      *)
(* settings read from the environment (config.py 62-63, defaults 3 and     *)
(* 3600 s); the clock of the model counts half windows, so the window is   *)
(* two ticks long.  time.time() is the clock `now`.  The handlers are      *)
(* coroutines without an await between the read and the write of the       *)
(* dictionary, so each is one step.                                        *)
(***************************************************************************)
RATE_LIMIT_MAX_REQUESTS == 3
RATE_LIMIT_WINDOW_SECONDS == 2

\* the address get_client_ip extracts from the request
ClientIps == {"10.0.0.1", "10.0.0.2"}

RateLimit(exceeded, store) == [exceeded |-> exceeded, store |-> store]

Window(count, window_start) == [count |-> count, window_start |-> window_start]

\* variant of check_rate_limit that lets a submission through while the
\* count does not exceed the limit
check_rate_limit_one_more(ip_address) ==
    LET current_time == now IN
    IF ip_address \in DOMAIN rate_limit_store
    THEN LET count == rate_limit_store[ip_address].count
             window_start == rate_limit_store[ip_address].window_start
         IN IF current_time - window_start < RATE_LIMIT_WINDOW_SECONDS
            THEN IF count > RATE_LIMIT_MAX_REQUESTS
                 THEN RateLimit(TRUE, rate_limit_store)
                 ELSE RateLimit(FALSE, [rate_limit_store EXCEPT ![ip_address] =
                                            Window(count + 1, window_start)])
            ELSE RateLimit(FALSE, [rate_limit_store EXCEPT ![ip_address] =
                                            Window(1, current_time)])
    ELSE RateLimit(FALSE, (ip_address :> Window(1, current_time)) @@ rate_limit_store)

\* variant of check_rate_limit in which a refused submission starts the
\* window again
check_rate_limit_restart(ip_address) ==
    LET current_time == now IN
    IF ip_address \in DOMAIN rate_limit_store
    THEN LET count == rate_limit_store[ip_address].count
             window_start == rate_limit_store[ip_address].window_start
         IN IF current_time - window_start < RATE_LIMIT_WINDOW_SECONDS
            THEN IF count >= RATE_LIMIT_MAX_REQUESTS
                 THEN RateLimit(TRUE, [rate_limit_store EXCEPT ![ip_address] =
                                            Window(count, current_time)])
                 ELSE RateLimit(FALSE, [rate_limit_store EXCEPT ![ip_address] =
                                            Window(count + 1, window_start)])
            ELSE RateLimit(FALSE, [rate_limit_store EXCEPT ![ip_address] =
                                            Window(1, current_time)])
    ELSE RateLimit(FALSE, (ip_address :> Window(1, current_time)) @@ rate_limit_store)

\* check_rate_limit (contact.py 57-92): the value it returns and the store
\* it leaves
check_rate_limit(ip_address) ==
    LET current_time == now IN
    IF ip_address \in DOMAIN rate_limit_store
    THEN LET count == rate_limit_store[ip_address].count
             window_start == rate_limit_store[ip_address].window_start
         IN IF current_time - window_start < RATE_LIMIT_WINDOW_SECONDS
            THEN IF count >= RATE_LIMIT_MAX_REQUESTS
                 THEN RateLimit(TRUE, rate_limit_store)
                 ELSE RateLimit(FALSE, [rate_limit_store EXCEPT ![ip_address] =
                                            Window(count + 1, window_start)])
            ELSE RateLimit(FALSE, [rate_limit_store EXCEPT ![ip_address] =
                                            Window(1, current_time)])
    ELSE RateLimit(FALSE, (ip_address :> Window(1, current_time)) @@ rate_limit_store)

\* get_rate_limit_remaining (contact.py 94-116) read in the store `store`
get_rate_limit_remaining(store, ip_address) ==
    IF ip_address \notin DOMAIN store
    THEN RATE_LIMIT_MAX_REQUESTS
    ELSE IF now - store[ip_address].window_start >= RATE_LIMIT_WINDOW_SECONDS
    THEN RATE_LIMIT_MAX_REQUESTS
    ELSE IF RATE_LIMIT_MAX_REQUESTS - store[ip_address].count > 0
    THEN RATE_LIMIT_MAX_REQUESTS - store[ip_address].count
    ELSE 0

\* what the mail step of submit_contact_form can come to: no ADMIN_EMAIL
\* configured, the message to the admin not sent, or sent
MailOutcomes == {"no admin email", "not sent", "sent"}

ContactResponse(status, detail, remaining_requests) ==
    [status |-> status, detail |-> detail, remaining_requests |-> remaining_requests]

\* POST /contact/ (contact.py 193-300)
submit_contact_form_response(ip, mail) ==
    IF check_rate_limit(ip).exceeded
    THEN ContactResponse(429, "Rate limit exceeded", 0)
    ELSE IF mail = "no admin email"
    THEN ContactResponse(500, "Admin email not configured", 0)
    ELSE IF mail = "not sent"
    THEN ContactResponse(500, "Failed to send email notification", 0)
    ELSE ContactResponse(200, "",
                         get_rate_limit_remaining(check_rate_limit(ip).store, ip))

\* the store is written by check_rate_limit before the mail is tried; the
\* log `accepted` counts the submissions the limiter let through
submit_contact_form(ip, mail) ==
    /\ rate_limit_store' = check_rate_limit(ip).store
    /\ accepted' = IF check_rate_limit(ip).exceeded
                   THEN accepted
                   ELSE (<<ip, now>> :> IF <<ip, now>> \in DOMAIN accepted
                                        THEN accepted[<<ip, now>>] + 1 ELSE 1)
                        @@ accepted
    /\ UNCHANGED <<dbVars, next_id, minted, now, inflight, uploads, issued>>

\* GET /contact/rate-limit-info (contact.py 302-323)
get_rate_limit_info_response(ip) ==
    ContactResponse(200, "", get_rate_limit_remaining(rate_limit_store, ip))

get_rate_limit_info(ip) ==
    /\ get_rate_limit_info_response(ip).status = 200
    /\ NoCommit

\* the clock moves on between two requests
time_passes ==
    /\ now < MaxTime
    /\ now' = now + 1
    /\ UNCHANGED <<dbVars, next_id, minted, inflight, uploads, hostVars>>

(***************************************************************************)
(* Initial state: the empty database created by Base.metadata.create_all.  *)
(***************************************************************************)
Init ==
    /\ users = <<>>
    /\ collections = <<>>
    /\ items = <<>>
    /\ images = <<>>
    /\ tags = <<>>
    /\ item_tags = [p \in {} |-> 0]
    /\ shares = <<>>
    /\ next_id = [user |-> 1, collection |-> 1, item |-> 1, image |-> 1,
                  tag |-> 1, share |-> 1]
    /\ minted = 0
    /\ now = 0
    /\ inflight = <<>>
    /\ uploads = {}
    /\ rate_limit_store = [ip \in {} |-> 0]
    /\ accepted = [p \in {} |-> 0]
    /\ issued = {}

(***************************************************************************)
(* Request inputs.                                                         *)
(***************************************************************************)
CollectionIdLists == SeqsUpTo(CollectionIds, MaxList)
ItemIdLists == SeqsUpTo(ItemIds, MaxList) \cup {<<0>>}
ItemOrderPairs == SeqsUpTo((1..MaxPairs) \X (0..(MaxPairs - 1)), MaxPairs)
TagNames == {"red", "blue"}
TagLists == SeqsUpTo(TagNames, MaxTagList)
FileLists == SeqsUpTo({".png", ".exe"}, MaxFiles)
ImageOrderLists == SeqsUpTo({OrderEntry("int", m) : m \in ImageIds}, MaxImageOrder)

(***************************************************************************)
(* SpecOrder: one user's collections and the items of the collections.     *)
(***************************************************************************)
NextOrder ==
    \/ register_user("alice", "alice@x.com", "alicepw")
    \/ \E u \in UserIds : create_collection(u)
    \/ \E u \in UserIds, c \in CollectionIds : create_item(u, c)
    \/ \E u \in UserIds, l \in CollectionIdLists : update_collection_order(u, l)
    \/ \E u \in UserIds, c \in CollectionIds, l \in ItemIdLists :
            update_item_order(u, c, ItemIdsBody(l))
    \/ \E u \in UserIds, c \in CollectionIds, p \in ItemOrderPairs :
            update_item_order(u, c, ItemOrdersBody(p))
    \/ \E u \in UserIds, c \in CollectionIds : delete_collection(u, c)
    \/ \E u \in UserIds, i \in ItemIds : delete_item(u, i)

SpecOrder == Init /\ [][NextOrder]_vars

(***************************************************************************)
(* SpecOwn: two users and every handler that requires an identity, plus    *)
(* the public share reads.  The clients keep the data small: a user holds  *)
(* at most MaxOwned collections, a collection MaxOwned items, an item      *)
(* MaxOwned images and MaxOwned tags.                                      *)
(***************************************************************************)
ShortCollectionIdLists == SeqsUpTo(CollectionIds, MaxOwned + 1)
ShortItemIdLists == SeqsUpTo(ItemIds, MaxOwned + 1)
\* the bodies of PATCH /items/{id}/images that name at most MaxImageEdits
\* deletions, uploads and order entries altogether
ImageEdits ==
    {e \in (SUBSET ImageIds) \X FileLists \X ImageOrderLists :
        Cardinality(e[1]) + Len(e[2]) + Len(e[3]) <= MaxImageEdits}

\* the requests of the authenticated user u
Request(u) ==
    \/ Cardinality(UserCollections(u)) < MaxOwned /\ create_collection(u)
    \/ get_collections(u)
    \/ \E l \in ShortCollectionIdLists : update_collection_order(u, l)
    \/ \E c \in CollectionIds :
        \/ get_collection(u, c)
        \/ get_collection_items(u, c)
        \/ update_collection(u, c)
        \/ delete_collection(u, c)
        \/ Cardinality(CollectionItems(c)) < MaxOwned /\ create_item(u, c)
        \/ \E l \in ShortItemIdLists : update_item_order(u, c, ItemIdsBody(l))
        \/ \E rotate \in BOOLEAN : create_or_enable_share(u, c, rotate)
        \/ disable_share(u, c)
    \/ \E i \in ItemIds :
        \/ get_item(u, i)
        \/ get_item_tags(u, i)
        \/ get_item_images(u, i)
        \/ update_item(u, i)
        \/ delete_item(u, i)
        \/ \E names \in TagLists :
            Cardinality(ItemTags(i)) < MaxOwned /\ add_item_tags(u, i, names)
        \/ delete_item_tags(u, i)
        \/ \E files \in FileLists :
            Cardinality(ItemImages(i)) < MaxOwned /\ upload_item_images(u, i, files)
        \/ \E e \in ImageEdits :
            /\ Len(e[2]) = 0 \/ Cardinality(ItemImages(i)) < MaxOwned
            /\ update_item_images(u, i, e[1], e[2], e[3])
    \/ \E m \in ImageIds : delete_item_image(u, m)

NextOwn ==
    \/ register_user("alice", "alice@x.com", "alicepw")
    \/ register_user("bob", "bob@x.com", "bobpw")
    \/ \E u \in UserIds : Request(u)
    \/ \E t \in Tokens : get_shared_collection(t)
    \/ \E t \in Tokens, i \in ItemIds : get_shared_item(t, i)

SpecOwn == Init /\ [][NextOwn]_vars

(***************************************************************************)
(* SpecShare: one owner, the share-link handlers and the public reads.     *)
(***************************************************************************)
NextShare ==
    \/ register_user("alice", "alice@x.com", "alicepw")
    \/ \E u \in UserIds : create_collection(u)
    \/ \E u \in UserIds, c \in CollectionIds : create_item(u, c)
    \/ \E u \in UserIds, c \in CollectionIds : delete_collection(u, c)
    \/ \E u \in UserIds, c \in CollectionIds, rotate \in BOOLEAN :
            create_or_enable_share(u, c, rotate)
    \/ \E u \in UserIds, c \in CollectionIds : disable_share(u, c)
    \/ \E t \in Tokens : get_shared_collection(t)
    \/ \E t \in Tokens, i \in ItemIds : get_shared_item(t, i)

SpecShare == Init /\ [][NextShare]_vars

(***************************************************************************)
(* Ordering claims (SpecOrder).                                            *)
(***************************************************************************)
\* the list l names every member of S exactly once
IsPermutation(l, S) == Range(l) = S /\ Len(l) = Cardinality(S)

\* the lists that name every member of the scope S exactly once
Orderings(S) == {l \in [1..Cardinality(S) -> S] : Range(l) = S}

DenseCollections(u) ==
    {collections[c].collection_order : c \in UserCollections(u)}
        = 0..(Cardinality(UserCollections(u)) - 1)

DenseItems(c) ==
    {items[i].item_order : i \in CollectionItems(c)}
        = 0..(Cardinality(CollectionItems(c)) - 1)

DenseImages(i) ==
    {images[m].image_order : m \in ItemImages(i)}
        = 0..(Cardinality(ItemImages(i)) - 1)

\* C1: in every reachable state the order values of each user's collections,
\* of each collection's items and of each item's images are exactly
\* {0, ..., n-1}, n the number of live members of the scope.
C1_DenseOrders ==
    /\ \A u \in DOMAIN users : DenseCollections(u)
    /\ \A c \in DOMAIN collections : DenseItems(c)
    /\ \A i \in DOMAIN items : DenseImages(i)

\* C2: a reorder request whose id list is not a permutation of the scope's
\* live members (an id missing, foreign or repeated) is rejected, and the
\* request changes no stored row.
C2_MismatchedReorderRejected ==
    /\ [](\A u \in DOMAIN users :
            /\ \A l \in CollectionIdLists :
                ~IsPermutation(l, UserCollections(u))
                    => update_collection_order_response(u, l).status >= 400
            /\ \A c \in UserCollections(u), l \in ItemIdLists :
                ~IsPermutation(l, CollectionItems(c))
                    => update_item_order_response(u, c, ItemIdsBody(l)).status >= 400)
    /\ [][\A u \in DOMAIN users :
            /\ \A l \in CollectionIdLists :
                (~IsPermutation(l, UserCollections(u)) /\ update_collection_order(u, l))
                    => UNCHANGED vars
            /\ \A c \in UserCollections(u), l \in ItemIdLists :
                (~IsPermutation(l, CollectionItems(c))
                    /\ update_item_order(u, c, ItemIdsBody(l)))
                    => UNCHANGED vars]_vars

\* C3: a reorder whose list is a permutation of the (non-empty) scope's live
\* members is accepted, gives every member the order of its 0-based position
\* in the list, keeps every row in its scope, and advances updated_date: of
\* the parent collection for an item reorder, of each reordered collection
\* for a collection reorder.
C3_PermutationReorder ==
    /\ [](\A u \in DOMAIN users :
            /\ \A l \in Orderings(UserCollections(u)) :
                l # <<>> => update_collection_order_response(u, l).status = 200
            /\ \A c \in UserCollections(u) : \A l \in Orderings(CollectionItems(c)) :
                l # <<>> => update_item_order_response(u, c, ItemIdsBody(l)).status = 200)
    /\ [][\A u \in DOMAIN users :
            /\ \A l \in Orderings(UserCollections(u)) :
                (l # <<>> /\ vars' # vars /\ update_collection_order(u, l))
                    => /\ \A k \in DOMAIN l : collections'[l[k]].collection_order = k - 1
                       /\ DOMAIN collections' = DOMAIN collections
                       /\ \A c \in DOMAIN collections :
                            collections'[c].owner_id = collections[c].owner_id
                       /\ \A c \in UserCollections(u) :
                            collections'[c].updated_date > collections[c].updated_date
                       /\ UNCHANGED items
            /\ \A c \in UserCollections(u) : \A l \in Orderings(CollectionItems(c)) :
                (l # <<>> /\ vars' # vars /\ update_item_order(u, c, ItemIdsBody(l)))
                    => /\ \A k \in DOMAIN l : items'[l[k]].item_order = k - 1
                       /\ DOMAIN items' = DOMAIN items
                       /\ \A i \in DOMAIN items :
                            items'[i].collection_id = items[i].collection_id
                       /\ DOMAIN collections' = DOMAIN collections
                       /\ collections'[c].updated_date > collections[c].updated_date]_vars

\* C3 witness: items 1, 2, 3 of one collection reordered as [3, 1, 2]
C3_Reordered ==
    /\ DOMAIN items = {1, 2, 3}
    /\ items[3].item_order = 0
    /\ items[1].item_order = 1
    /\ items[2].item_order = 2
    /\ items[1].collection_id = items[2].collection_id
    /\ items[2].collection_id = items[3].collection_id
    /\ items[1].collection_id \in DOMAIN collections
    /\ collections[items[1].collection_id].updated_date = now
    /\ \A i \in DOMAIN items : items[i].updated_date = now

\* the pairs list p gives each live member of S one order, the orders being 0..n-1
ValidPairs(p, S) ==
    /\ Len(p) = Cardinality(S)
    /\ {p[k][1] : k \in DOMAIN p} = S
    /\ {p[k][2] : k \in DOMAIN p} = 0..(Cardinality(S) - 1)

\* C4: an item reorder request in the pairs form [{id, order}, ...] is
\* accepted exactly when its ids are the collection's live items and its
\* orders are 0..n-1; any other pairs list is rejected.
C4_PairsFormAccepted ==
    \A u \in DOMAIN users : \A c \in UserCollections(u) :
        \A p \in ItemOrderPairs \ {<<>>} :
            IF ValidPairs(p, CollectionItems(c))
            THEN update_item_order_response(u, c, ItemOrdersBody(p)).status = 200
            ELSE update_item_order_response(u, c, ItemOrdersBody(p)).status >= 400

\* C5 (as stated): a reorder with an empty list is rejected when the scope
\* has a live member and accepted, changing nothing, when the scope is empty.
C5_EmptyListByScope ==
    \A u \in DOMAIN users :
        /\ update_collection_order_response(u, <<>>).status =
                IF UserCollections(u) # {} THEN 400 ELSE 200
        /\ \A c \in UserCollections(u) :
            IF CollectionItems(c) # {}
            THEN update_item_order_response(u, c, ItemIdsBody(<<>>)).status >= 400
            ELSE update_item_order_response(u, c, ItemIdsBody(<<>>)).status = 200

\* C5 (amended): a reorder with an empty list is rejected and changes
\* nothing, whether the scope has live members or is empty.
C5_EmptyListRejected ==
    /\ [](\A u \in DOMAIN users :
            /\ update_collection_order_response(u, <<>>).status = 400
            /\ \A c \in UserCollections(u) :
                /\ update_item_order_response(u, c, ItemIdsBody(<<>>)).status = 422
                /\ update_item_order_response(u, c, ItemOrdersBody(<<>>)).status = 422)
    /\ [][\A u \in DOMAIN users :
            /\ update_collection_order(u, <<>>) => UNCHANGED vars
            /\ \A c \in UserCollections(u) :
                (update_item_order(u, c, ItemIdsBody(<<>>))
                    \/ update_item_order(u, c, ItemOrdersBody(<<>>)))
                    => UNCHANGED vars]_vars

\* C5 witness: a collection that has no item, where the empty list is
\* answered with an error for the items and for the collections
C5_EmptyScopeRejected ==
    \E u \in DOMAIN users :
        /\ \E c \in UserCollections(u) :
            /\ CollectionItems(c) = {}
            /\ update_item_order_response(u, c, ItemIdsBody(<<>>)).status = 422
            /\ update_collection_order_response(u, <<>>).status = 400

\* C6: create_collection and create_item give the new member the order
\* (maximum order of its scope) + 1, which is 0 in an empty scope.
C6_CreateAppends ==
    [][\A u \in DOMAIN users :
        /\ (vars' # vars /\ create_collection(u))
                => collections'[next_id.collection].collection_order =
                    IF UserCollections(u) = {} THEN 0
                    ELSE func_max({collections[c].collection_order :
                                     c \in UserCollections(u)}) + 1
        /\ \A c \in UserCollections(u) :
            (vars' # vars /\ create_item(u, c))
                => items'[next_id.item].item_order =
                    IF CollectionItems(c) = {} THEN 0
                    ELSE func_max({items[i].item_order : i \in CollectionItems(c)}) + 1]_vars

(***************************************************************************)
(* Ownership claims (SpecOwn).                                             *)
(***************************************************************************)
\* the rows that belong to a user other than u
ForeignCollections(u) == {c \in DOMAIN collections : collections[c].owner_id # u}
ForeignItems(u) == {i \in DOMAIN items : items[i].collection_id \in ForeignCollections(u)}
ForeignImages(u) == {m \in DOMAIN images : images[m].item_id \in ForeignItems(u)}
ForeignShares(u) == {s \in DOMAIN shares : shares[s].collection_id \in ForeignCollections(u)}

ForeignData(u) ==
    <<[c \in ForeignCollections(u) |-> collections[c]],
      [i \in ForeignItems(u) |-> items[i]],
      [m \in ForeignImages(u) |-> images[m]],
      [p \in {q \in DOMAIN item_tags : q[1] \in ForeignItems(u)} |-> item_tags[p]],
      [s \in ForeignShares(u) |-> shares[s]]>>

ForeignEntities(u) ==
    {<<"collection", c>> : c \in ForeignCollections(u)}
        \cup {<<"item", i>> : i \in ForeignItems(u)}
        \cup {<<"image", m>> : m \in ForeignImages(u)}

OwnItems(u) == {i \in DOMAIN items : OwnedItem(u, i)}

\* every response the user u can obtain
ResponsesTo(u) ==
    {get_collections_response(u), create_collection_response(u)}
    \cup {update_collection_order_response(u, l) : l \in ShortCollectionIdLists}
    \cup UNION {{get_collection_response(u, c), get_collection_items_response(u, c),
                 update_collection_response(u, c), create_item_response(u, c),
                 delete_collection_response(u, c, TRUE),
                 delete_collection_response(u, c, FALSE),
                 create_or_enable_share_response(u, c, TRUE),
                 create_or_enable_share_response(u, c, FALSE),
                 disable_share_response(u, c)}
                \cup {update_item_order_response(u, c, ItemIdsBody(l)) :
                        l \in ShortItemIdLists} : c \in CollectionIds}
    \cup UNION {{get_item_response(u, i), get_item_tags_response(u, i),
                 get_item_images_response(u, i), update_item_response(u, i),
                 delete_item_response(u, i), delete_item_tags_response(u, i)}
                \cup {add_item_tags_response(u, i, names) : names \in TagLists}
                \cup {upload_item_images_response(u, i, files) : files \in FileLists}
                \cup {update_item_images_response(u, i, e[1], e[2], e[3]) :
                        e \in ImageEdits} : i \in ItemIds}
    \cup {delete_item_image_response(u, m) : m \in ImageIds}

\* the responses to the requests of u whose path names a row of another user
\* and whose body is well formed
ForeignPathResponses(u) ==
    UNION {{get_collection_response(u, c), get_collection_items_response(u, c),
            update_collection_response(u, c), create_item_response(u, c),
            delete_collection_response(u, c, TRUE),
            delete_collection_response(u, c, FALSE),
            create_or_enable_share_response(u, c, TRUE),
            create_or_enable_share_response(u, c, FALSE),
            disable_share_response(u, c)}
           \cup {update_item_order_response(u, c, ItemIdsBody(l)) :
                    l \in {x \in ShortItemIdLists : ItemOrderUpdate(ItemIdsBody(x)) = ""}} :
           c \in ForeignCollections(u)}
    \cup UNION {{get_item_response(u, i), get_item_tags_response(u, i),
                 get_item_images_response(u, i), update_item_response(u, i),
                 delete_item_response(u, i), delete_item_tags_response(u, i)}
                \cup {add_item_tags_response(u, i, names) : names \in TagLists}
                \cup {upload_item_images_response(u, i, files) :
                        files \in FileLists \ {<<>>}}
                \cup {update_item_images_response(u, i, e[1], e[2], e[3]) :
                        e \in ImageEdits} : i \in ForeignItems(u)}
    \cup {delete_item_image_response(u, m) : m \in ForeignImages(u)}

\* the responses to the requests of u on its own rows whose deletion list
\* names an image of another user
ForeignDeletionResponses(u) ==
    UNION {{update_item_images_response(u, i, e[1], e[2], e[3]) :
                e \in {x \in ImageEdits : x[1] \cap ForeignImages(u) # {}}} :
           i \in OwnItems(u)}

\* the responses to the requests of u on its own rows whose order list names
\* a row of another user
ForeignOrderResponses(u) ==
    {update_collection_order_response(u, l) :
        l \in {x \in ShortCollectionIdLists : Range(x) \cap ForeignCollections(u) # {}}}
    \cup UNION {{update_item_order_response(u, c, ItemIdsBody(l)) :
                    l \in {x \in ShortItemIdLists : Range(x) \cap ForeignItems(u) # {}}} :
                c \in UserCollections(u)}
    \cup UNION {{update_item_images_response(u, i, e[1], e[2], e[3]) :
                    e \in {x \in ImageEdits :
                            {x[3][k].v : k \in DOMAIN x[3]} \cap ForeignImages(u) # {}}} :
                i \in OwnItems(u)}

\* no response to u carries a row or a share token of another user
NoForeignRead(u) ==
    \A r \in ResponsesTo(u) :
        /\ r.ids \cap ForeignEntities(u) = {}
        /\ \A s \in ForeignShares(u) : r.token # shares[s].token

\* no request of u changes a row of another user
NoForeignWrite(u) ==
    \/ vars' = vars
    \/ ForeignData(u)' = ForeignData(u)
    \/ ~Request(u)

CollectionEndpoints(u, c) ==
    <<verify_collection(u, c), get_collection_response(u, c),
      get_collection_items_response(u, c), update_collection_response(u, c),
      create_item_response(u, c), delete_collection_response(u, c, TRUE),
      delete_collection_response(u, c, FALSE),
      [l \in ShortItemIdLists |-> update_item_order_response(u, c, ItemIdsBody(l))]>>

ItemEndpoints(u, i) ==
    <<verify_item(u, i), get_item_response(u, i), get_item_tags_response(u, i),
      get_item_images_response(u, i), update_item_response(u, i),
      delete_item_response(u, i), delete_item_tags_response(u, i),
      [names \in TagLists |-> add_item_tags_response(u, i, names)],
      [files \in FileLists |-> upload_item_images_response(u, i, files)],
      [e \in ImageEdits |-> update_item_images_response(u, i, e[1], e[2], e[3])]>>

\* C8: verify_collection, verify_item and every endpoint built on them
\* answer a collection or item that does not exist and one that another user
\* owns with the same 404 and the same detail.
C8_SameNotFound ==
    \A u \in DOMAIN users :
        /\ \A c1 \in ForeignCollections(u) :
            /\ verify_collection(u, c1).status = 404
            /\ \A c2 \in (0..(MaxCollections + 1)) \ DOMAIN collections :
                CollectionEndpoints(u, c1) = CollectionEndpoints(u, c2)
        /\ \A i1 \in ForeignItems(u) :
            /\ verify_item(u, i1).status = 404
            /\ \A i2 \in (0..(MaxItems + 1)) \ DOMAIN items :
                ItemEndpoints(u, i1) = ItemEndpoints(u, i2)

\* C8 witness: a user who owns a collection and an item, refused on a
\* collection and on an item of another user
C8_ForeignRefused ==
    \E u \in DOMAIN users :
        /\ UserCollections(u) # {}
        /\ OwnItems(u) # {}
        /\ \E c \in ForeignCollections(u) : get_collection_response(u, c).status = 404
        /\ \E i \in ForeignItems(u) : update_item_response(u, i).status = 404

\* C9: verify_item_image and DELETE /images/{id} answer an image that does
\* not exist and one that another user owns with the same 404 and detail.
C9_SameImageNotFound ==
    \A u \in DOMAIN users :
        \A m1 \in ForeignImages(u) :
            \A m2 \in (0..(MaxImages + 1)) \ DOMAIN images :
                /\ verify_item_image(u, m1) = verify_item_image(u, m2)
                /\ delete_item_image_response(u, m1) = delete_item_image_response(u, m2)

(***************************************************************************)
(* Share-link claims (SpecShare).                                          *)
(***************************************************************************)
SharesOf(c) == {s \in DOMAIN shares : shares[s].collection_id = c}

\* C10: create_or_enable_share with rotate = false makes a share with a new
\* token, enabled, when the collection has none; answers an enabled share
\* with its token and changes nothing; re-enables a disabled share under the
\* token it had when it was disabled.
C10_CreateOrEnable ==
    /\ [](\A u \in DOMAIN users : \A c \in UserCollections(u) :
            LET r == create_or_enable_share_response(u, c, FALSE) IN
            /\ r.status = 200
            /\ IF SharesOf(c) = {}
               THEN \A s \in DOMAIN shares : shares[s].token # r.token
               ELSE \A s \in SharesOf(c) : shares[s].token = r.token)
    /\ [][\A u \in DOMAIN users : \A c \in UserCollections(u) :
            /\ create_or_enable_share(u, c, FALSE) =>
                IF SharesOf(c) = {}
                THEN /\ DOMAIN shares' = DOMAIN shares \cup {next_id.share}
                     /\ shares'[next_id.share].collection_id = c
                     /\ shares'[next_id.share].is_enabled
                     /\ shares'[next_id.share].token =
                            create_or_enable_share_response(u, c, FALSE).token
                     /\ \A s \in DOMAIN shares : shares'[s] = shares[s]
                ELSE IF \A s \in SharesOf(c) : shares[s].is_enabled
                THEN vars' = vars
                ELSE /\ DOMAIN shares' = DOMAIN shares
                     /\ \A s \in SharesOf(c) :
                            shares'[s].is_enabled /\ shares'[s].token = shares[s].token
                     /\ \A s \in DOMAIN shares \ SharesOf(c) : shares'[s] = shares[s]
            /\ disable_share(u, c) =>
                /\ DOMAIN shares' = DOMAIN shares
                /\ \A s \in DOMAIN shares : shares'[s].token = shares[s].token]_vars

\* C10 witness: a share that was created, disabled and enabled again, with
\* the one token ever drawn
C10_ReEnabled ==
    \E s \in DOMAIN shares :
        /\ shares[s].is_enabled
        /\ shares[s].updated_date > shares[s].created_date
        /\ minted = 1
        /\ shares[s].token = 1

\* the tokens drawn so far that no share row holds any more
RetiredTokens == {t \in 1..minted : \A s \in DOMAIN shares : shares[s].token # t}

\* C11: create_or_enable_share with rotate = true leaves the collection's
\* share enabled under a token that was never drawn before and that
\* resolves; a token that no row holds any more resolves to 404 and is never
\* held by a row again.
C11_RotateInvalidatesOldToken ==
    /\ [](\A t \in RetiredTokens :
            /\ get_shared_collection_response(t).status = 404
            /\ \A i \in ItemIds : get_shared_item_response(t, i).status = 404)
    /\ [][/\ RetiredTokens \subseteq RetiredTokens'
          /\ \A u \in DOMAIN users : \A c \in UserCollections(u) :
                (vars' # vars /\ create_or_enable_share(u, c, TRUE)) =>
                    \A t \in {create_or_enable_share_response(u, c, TRUE).token} :
                    /\ t \notin 1..minted
                    /\ \A s \in DOMAIN shares : shares[s].token # t
                    /\ \A s \in SharesOf(c) : shares[s].token \in RetiredTokens'
                    /\ SharesOf(c)' # {}
                    /\ \A s \in SharesOf(c)' : shares'[s].is_enabled /\ shares'[s].token = t
                    /\ (get_shared_collection_response(t))'.status = 200
                    /\ <<"collection", c>> \in (get_shared_collection_response(t))'.ids]_vars

\* C11 witness: a share rotated to the second token, which resolves while
\* the first token does not
C11_Rotated ==
    \E s \in DOMAIN shares :
        /\ shares[s].token = 2
        /\ shares[s].is_enabled
        /\ shares[s].updated_date > shares[s].created_date
        /\ 1 \in RetiredTokens
        /\ get_shared_collection_response(2).status = 200
        /\ get_shared_collection_response(1).status = 404

\* C12: disable_share by the owner answers 200 and leaves the collection's
\* share disabled under the token it had, whether it was enabled or already
\* disabled; when the collection has no share row it answers 404 and
\* changes nothing.
C12_DisableShare ==
    /\ [](\A u \in DOMAIN users : \A c \in UserCollections(u) :
            disable_share_response(u, c).status =
                IF SharesOf(c) = {} THEN 404 ELSE 200)
    /\ [][\A u \in DOMAIN users : \A c \in UserCollections(u) :
            disable_share(u, c) =>
                IF SharesOf(c) = {}
                THEN vars' = vars
                ELSE /\ DOMAIN shares' = DOMAIN shares
                     /\ \A s \in SharesOf(c) :
                            ~shares'[s].is_enabled /\ shares'[s].token = shares[s].token
                     /\ \A s \in DOMAIN shares \ SharesOf(c) : shares'[s] = shares[s]
                     /\ (\A s \in SharesOf(c) : ~shares[s].is_enabled) => vars' = vars
                     /\ UNCHANGED <<collections, items, minted>>]_vars

\* C12 witness: a share that was enabled and then disabled, with its token
C12_Disabled ==
    \E u \in DOMAIN users : \E c \in UserCollections(u) : \E s \in SharesOf(c) :
        /\ ~shares[s].is_enabled
        /\ shares[s].token = minted
        /\ shares[s].updated_date > shares[s].created_date
        /\ disable_share_response(u, c).status = 200

\* the token strings a client can send: every token drawn or not yet drawn,
\* and two that are never drawn
AnyToken == 0..(MaxTokens + 1)

\* the collections a response body contains
CollectionsIn(r) == {x[2] : x \in {y \in r.ids : y[1] = "collection"}}

\* the items a response body contains
ItemsIn(r) == {x[2] : x \in {y \in r.ids : y[1] = "item"}}

\* C13: get_shared_collection(token) answers 200 exactly when an enabled
\* share holds the token and its collection exists, and then the body is
\* that collection; a token of a disabled share and a token of no share get
\* the same 404 response.
C13_PublicResolution ==
    \A t \in AnyToken :
        LET r == get_shared_collection_response(t)
            live == {s \in DOMAIN shares : shares[s].token = t /\ shares[s].is_enabled}
        IN
        /\ r.status \in {200, 404}
        /\ r.status = 200 <=>
                \E s \in live : shares[s].collection_id \in DOMAIN collections
        /\ r.status = 200 =>
                \E s \in live :
                    /\ CollectionsIn(r) = {shares[s].collection_id}
                    /\ ItemsIn(r) = CollectionItems(shares[s].collection_id)
        /\ live = {} =>
                r = get_shared_collection_response(MaxTokens + 1)

\* C13 witness: an enabled share whose token resolves beside a disabled share
\* whose token does not
C13_EnabledAndDisabled ==
    \E s1, s2 \in DOMAIN shares :
        /\ shares[s1].is_enabled
        /\ get_shared_collection_response(shares[s1].token).status = 200
        /\ ~shares[s2].is_enabled
        /\ get_shared_collection_response(shares[s2].token).status = 404

\* C14: a collection never has two share rows, no two share rows hold the
\* same token, and create_or_enable_share on a collection that has a row
\* adds none.
C14_OneSharePerCollection ==
    /\ [](/\ \A s1, s2 \in DOMAIN shares :
                (shares[s1].collection_id = shares[s2].collection_id
                    \/ shares[s1].token = shares[s2].token) => s1 = s2)
    /\ [][\A u \in DOMAIN users : \A c \in UserCollections(u) : \A rotate \in BOOLEAN :
            (SharesOf(c) # {} /\ create_or_enable_share(u, c, rotate))
                => /\ DOMAIN shares' = DOMAIN shares
                   /\ SharesOf(c)' = SharesOf(c)]_vars

\* C14 witness: the one share row ever made, rewritten by a later call
C14_RowReused ==
    /\ next_id.share = 2
    /\ DOMAIN shares = {1}
    /\ shares[1].token = 2
    /\ shares[1].updated_date > shares[1].created_date

\* C15: get_shared_item(token, item_id) answers 200 exactly when an enabled
\* share holds the token and the item's collection_id is that share's
\* collection_id, and then the body is that item; an item of another
\* collection, an id of no item, and any id under a disabled or unknown
\* token get 404.
C15_SharedItemScope ==
    \A t \in AnyToken : \A i \in 0..(MaxItems + 1) :
        LET r == get_shared_item_response(t, i)
            live == {s \in DOMAIN shares : shares[s].token = t /\ shares[s].is_enabled}
        IN
        /\ r.status \in {200, 404}
        /\ r.status = 200 <=>
                /\ i \in DOMAIN items
                /\ \E s \in live : items[i].collection_id = shares[s].collection_id
        /\ r.status = 200 => ItemsIn(r) = {i}

\* C15 witness: under the token of an enabled share, an item of the shared
\* collection is returned and an item of another collection is refused
C15_WrongCollection ==
    \E s \in DOMAIN shares : \E i1, i2 \in DOMAIN items :
        /\ shares[s].is_enabled
        /\ items[i1].collection_id = shares[s].collection_id
        /\ items[i2].collection_id \in DOMAIN collections \ {shares[s].collection_id}
        /\ get_shared_item_response(shares[s].token, i1).status = 200
        /\ get_shared_item_response(shares[s].token, i2).status = 404

(***************************************************************************)
(* SpecImages: two users, and the handlers that create, reorder and delete *)
(* image records.  An order entry is an image id or a temporary id         *)
(* "new-k" of the k-th uploaded file.                                      *)
(***************************************************************************)
ImageOrderEntries ==
    {OrderEntry("int", m) : m \in ImageIds} \cup {OrderEntry("new", k) : k \in 0..MaxFiles}

ImageOrderBodies == SeqsUpTo(ImageOrderEntries, MaxImageList)

NextImages ==
    \/ register_user("alice", "alice@x.com", "alicepw")
    \/ register_user("bob", "bob@x.com", "bobpw")
    \/ \E u \in UserIds : create_collection(u)
    \/ \E u \in UserIds, c \in CollectionIds : create_item(u, c)
    \/ \E u \in UserIds, i \in ItemIds, files \in FileLists : upload_item_images(u, i, files)
    \/ \E u \in UserIds, i \in ItemIds, deleted \in SUBSET ImageIds, files \in FileLists,
          order \in ImageOrderBodies : update_item_images(u, i, deleted, files, order)
    \/ \E u \in UserIds, m \in ImageIds : delete_item_image(u, m)

SpecImages == Init /\ [][NextImages]_vars

(***************************************************************************)
(* Image claims (SpecImages).                                              *)
(***************************************************************************)
\* the deletion list names an image that does not exist or that is not the
\* caller's
BadDeletion(u, deleted) ==
    \E m \in deleted : m \notin DOMAIN images \/ ~OwnedItem(u, images[m].item_id)

\* C16: update_item_images whose deletion list names an image that does not
\* exist or is not the caller's is answered with an error and commits
\* nothing: no image record deleted, none added, no image_order changed.
C16_BadDeletionFailsWhole ==
    /\ [](\A u \in DOMAIN users : \A i \in OwnItems(u) :
            \A deleted \in SUBSET ImageIds, files \in FileLists, order \in ImageOrderBodies :
                BadDeletion(u, deleted) =>
                    update_item_images_response(u, i, deleted, files, order).status
                        \in {400, 404})
    /\ [][\/ <<dbVars, next_id>>' = <<dbVars, next_id>>
          \/ \A u \in DOMAIN users : \A i \in OwnItems(u) :
                \A deleted \in SUBSET ImageIds, files \in FileLists,
                   order \in ImageOrderBodies :
                    ~(BadDeletion(u, deleted)
                        /\ update_item_images(u, i, deleted, files, order))]_vars

\* C16 witness: a user with an item, refused to delete the image of another
\* user in a request that also uploads a file
C16_ForeignDeletion ==
    \E u \in DOMAIN users : \E i \in OwnItems(u) : \E m \in ForeignImages(u) :
        update_item_images_response(u, i, {m}, <<".png">>,
                                    <<OrderEntry("new", 0)>>).status = 404

\* the order list names an image of the deletion list or an image that is
\* not the item's
BadOrder(i, deleted, order) ==
    \E k \in DOMAIN order :
        /\ order[k].kind = "int"
        /\ order[k].v \in deleted \/ order[k].v \notin ItemImages(i)

\* C17: update_item_images whose order list names an image of the same
\* request's deletion list, or an image that is not the item's, is answered
\* with an error and commits none of the request's deletions, uploads and
\* order changes.
C17_BadOrderFailsWhole ==
    /\ [](\A u \in DOMAIN users : \A i \in OwnItems(u) :
            \A deleted \in SUBSET ImageIds, files \in FileLists, order \in ImageOrderBodies :
                BadOrder(i, deleted, order) =>
                    update_item_images_response(u, i, deleted, files, order).status
                        \in {400, 404})
    /\ [][\/ <<dbVars, next_id>>' = <<dbVars, next_id>>
          \/ \A u \in DOMAIN users : \A i \in OwnItems(u) :
                \A deleted \in SUBSET ImageIds, files \in FileLists,
                   order \in ImageOrderBodies :
                    ~(BadOrder(i, deleted, order)
                        /\ update_item_images(u, i, deleted, files, order))]_vars

\* C17 witness: an item with an image, where a request that deletes the
\* image, uploads a file and orders both is refused
C17_OrderNamesDeleted ==
    \E u \in DOMAIN users : \E i \in OwnItems(u) : \E m \in ItemImages(i) :
        update_item_images_response(u, i, {m}, <<".png">>,
            <<OrderEntry("new", 0), OrderEntry("int", m)>>).status = 400

\* the order list names each surviving image of the item and each uploaded
\* file exactly once
NamesAllOnce(i, deleted, files, order) ==
    /\ Len(order) = Cardinality(ItemImages(i) \ deleted) + Len(files)
    /\ {order[k].v : k \in {x \in DOMAIN order : order[x].kind = "int"}}
            = ItemImages(i) \ deleted
    /\ {order[k].v : k \in {x \in DOMAIN order : order[x].kind = "new"}}
            = 0..(Len(files) - 1)

\* C18: update_item_images is accepted only when its order list names every
\* surviving image and every new image exactly once, and an accepted
\* request leaves the item's image_order values exactly {0, ..., n-1}.
C18_ImageReconciler ==
    /\ [](\A u \in DOMAIN users : \A i \in OwnItems(u) :
            \A deleted \in SUBSET ImageIds, files \in FileLists, order \in ImageOrderBodies :
                update_item_images_response(u, i, deleted, files, order).status = 200
                    => NamesAllOnce(i, deleted, files, order))
    /\ [][\/ vars' = vars
          \/ \A u \in DOMAIN users : \A i \in OwnItems(u) :
                \A deleted \in SUBSET ImageIds, files \in FileLists,
                   order \in ImageOrderBodies :
                    update_item_images(u, i, deleted, files, order) => DenseImages(i)']_vars

(***************************************************************************)
(* SpecTags: one user and the tag handlers.                                *)
(***************************************************************************)
TagBodies == SeqsUpTo(TagNames, MaxTagBody)

NextTags ==
    \/ register_user("alice", "alice@x.com", "alicepw")
    \/ \E u \in UserIds : create_collection(u)
    \/ \E u \in UserIds, c \in CollectionIds : create_item(u, c)
    \/ \E u \in UserIds, i \in ItemIds, names \in TagBodies : add_item_tags(u, i, names)
    \/ \E u \in UserIds, i \in ItemIds : delete_item_tags(u, i)
    \/ \E u \in UserIds, i \in ItemIds : delete_item(u, i)
    \/ cleanup_unused_tags

SpecTags == Init /\ [][NextTags]_vars

(***************************************************************************)
(* Tag claims (SpecTags).                                                  *)
(***************************************************************************)
\* the Tag rows named n
TagsNamed(n) == {t \in DOMAIN tags : tags[t] = n}

\* the number of rows of item_tags that hold item i
RECURSIVE SumRows(_, _)
SumRows(assoc, P) ==
    IF P = {} THEN 0
    ELSE LET p == CHOOSE x \in P : TRUE IN assoc[p] + SumRows(assoc, P \ {p})

TagCount(i) == SumRows(item_tags, {q \in DOMAIN item_tags : q[1] = i})

\* C19: no two Tag rows have the same name and no item holds a tag twice;
\* add_item_tags with names the item already has, repeated or not, changes
\* neither the Tag rows nor the item's associations, and a name repeated in
\* one request is created and associated once.
C19_TagsNotDuplicated ==
    /\ [](/\ \A t1, t2 \in DOMAIN tags : tags[t1] = tags[t2] => t1 = t2
          /\ \A p \in DOMAIN item_tags : item_tags[p] = 1)
    /\ [][\A u \in DOMAIN users : \A i \in OwnItems(u) : \A names \in TagBodies :
            (vars' # vars /\ add_item_tags(u, i, names)) =>
                /\ (\A k \in DOMAIN names : \E t \in ItemTags(i) : tags[t] = names[k])
                        => (tags' = tags /\ item_tags' = item_tags /\ TagCount(i)' = TagCount(i))
                /\ \A n \in Range(names) : Cardinality(TagsNamed(n)') = 1
                /\ TagCount(i)' = Cardinality(ItemTags(i)
                                    \cup UNION {TagsNamed(n)' : n \in Range(names)})]_vars

\* C19 witness: an item written twice by the tag handlers that holds the one
\* Tag row ever made, once
C19_AddedTwice ==
    \E i \in DOMAIN items :
        /\ items[i].updated_date >= items[i].created_date + 2
        /\ next_id.tag = 2
        /\ TagCount(i) = 1

\* C20: add_item_tags with one name that is a Tag but not on the item keeps
\* the Tag rows as they are and gives the item exactly one more association,
\* to that Tag; with a name that is no Tag it makes exactly one Tag row, of
\* that name, and associates it.
C20_TagReused ==
    [][\A u \in DOMAIN users : \A i \in OwnItems(u) : \A n \in TagNames :
        (vars' # vars /\ add_item_tags(u, i, <<n>>)) =>
            IF TagsNamed(n) # {}
            THEN /\ tags' = tags
                 /\ (TagsNamed(n) \cap ItemTags(i) = {}) =>
                        /\ TagCount(i)' = TagCount(i) + 1
                        /\ ItemTags(i)' = ItemTags(i) \cup TagsNamed(n)
            ELSE /\ Cardinality(DOMAIN tags') = Cardinality(DOMAIN tags) + 1
                 /\ \A t \in DOMAIN tags : t \in DOMAIN tags' /\ tags'[t] = tags[t]
                 /\ Cardinality(TagsNamed(n)') = 1
                 /\ TagCount(i)' = TagCount(i) + 1
                 /\ ItemTags(i)' = ItemTags(i) \cup TagsNamed(n)']_vars

\* C20 witness: the one Tag row ever made, held by two items
C20_SharedTag ==
    \E i1, i2 \in DOMAIN items :
        /\ i1 # i2
        /\ next_id.tag = 2
        /\ ItemTags(i1) = {1}
        /\ ItemTags(i2) = {1}

\* C21: delete_item_tags answers the owner 200 with the empty list, removes
\* every association of the item, and changes no Tag row and no association
\* of another item.
C21_RemoveAllTags ==
    /\ [](\A u \in DOMAIN users : \A i \in OwnItems(u) :
            /\ delete_item_tags_response(u, i).status = 200
            /\ delete_item_tags_response(u, i).ids = {})
    /\ [][\A u \in DOMAIN users : \A i \in OwnItems(u) :
            (vars' # vars /\ delete_item_tags(u, i)) =>
                /\ ItemTags(i)' = {}
                /\ tags' = tags
                /\ DOMAIN item_tags' = {p \in DOMAIN item_tags : p[1] # i}
                /\ \A p \in DOMAIN item_tags' : item_tags'[p] = item_tags[p]]_vars

\* C21 witness: an item that was given a tag and then cleared, the Tag row
\* still there
C21_Cleared ==
    \E i \in DOMAIN items :
        /\ ItemTags(i) = {}
        /\ items[i].updated_date >= items[i].created_date + 2
        /\ next_id.tag = 2
        /\ DOMAIN tags = {1}

(***************************************************************************)
(* Requests served concurrently.  Each request runs in a session of its    *)
(* own (get_db): what it reads is the committed state, what it flushes is  *)
(* seen by nobody else until it commits, and a unique index makes an       *)
(* INSERT wait for an open transaction that inserted the same key and fail *)
(* with IntegrityError once that key is committed.  No handler catches the *)
(* error, so FastAPI answers 500 and the session is closed uncommitted.    *)
(* inflight maps a request to its position in the handler and its locals.  *)
(***************************************************************************)
RequestIds == 1..MaxRequests
Passwords == {"alicepw", "bobpw"}

InFlight(op, pc, item, name, email, password) ==
    [op |-> op, pc |-> pc, item |-> item, name |-> name, email |-> email,
     password |-> password, tag |-> NULL, status |-> 0]

\* the request is answered: its session is closed and frees what it held
respond(r) ==
    /\ r \in DOMAIN inflight
    /\ inflight[r].pc = "done"
    /\ inflight' = [q \in DOMAIN inflight \ {r} |-> inflight[q]]
    /\ UNCHANGED <<hostVars, uploads, users, collections, items, images, tags, item_tags, shares,
                   next_id, minted, now>>

\* tag ids inserted by open transactions that have not committed yet
flushed_tags(r) ==
    {q \in DOMAIN inflight \ {r} :
        /\ inflight[q].op = "add_item_tags"
        /\ inflight[q].pc = "append"
        /\ inflight[q].tag \notin DOMAIN tags}

\* POST /items/{item_id}/tags, one name in the body: verify_item
add_item_tags_begin(r, u, i, tag_name) ==
    /\ u \in DOMAIN users
    /\ r \in RequestIds \ DOMAIN inflight
    /\ IF verify_item(u, i).status # 200
       THEN NoCommit
       ELSE /\ inflight' = inflight @@
                    (r :> InFlight("add_item_tags", "query", i, tag_name, "", ""))
            /\ UNCHANGED <<hostVars, uploads, users, collections, items, images, tags, item_tags, shares,
                           next_id, minted, now>>

\* db.query(TagModel).filter(TagModel.name == tag_name).first()
add_item_tags_query(r) ==
    /\ r \in DOMAIN inflight
    /\ inflight[r].op = "add_item_tags"
    /\ inflight[r].pc = "query"
    /\ LET existing == {t \in DOMAIN tags : tags[t] = inflight[r].name}
       IN inflight' = [inflight EXCEPT ![r] =
            IF existing = {}
            THEN [@ EXCEPT !.pc = "flush"]
            ELSE [@ EXCEPT !.pc = "append",
                           !.tag = CHOOSE t \in existing : \A x \in existing : t <= x]]
    /\ UNCHANGED <<hostVars, uploads, users, collections, items, images, tags, item_tags, shares,
                   next_id, minted, now>>

\* tag = TagModel(name=tag_name); db.add(tag); db.flush()
add_item_tags_flush(r) ==
    /\ r \in DOMAIN inflight
    /\ inflight[r].op = "add_item_tags"
    /\ inflight[r].pc = "flush"
    /\ \A q \in flushed_tags(r) : inflight[q].name # inflight[r].name
    /\ IF \E t \in DOMAIN tags : tags[t] = inflight[r].name
       THEN /\ inflight' = [inflight EXCEPT ![r].pc = "done", ![r].status = 500]
            /\ UNCHANGED next_id
       ELSE /\ next_id.tag <= MaxTags
            /\ inflight' = [inflight EXCEPT ![r].pc = "append", ![r].tag = next_id.tag]
            /\ next_id' = [next_id EXCEPT !.tag = @ + 1]
    /\ UNCHANGED <<hostVars, uploads, users, collections, items, images, tags, item_tags, shares,
                   minted, now>>

\* item.tags.append(tag) unless it is there; db.commit()
add_item_tags_commit(r) ==
    /\ r \in DOMAIN inflight
    /\ inflight[r].op = "add_item_tags"
    /\ inflight[r].pc = "append"
    /\ now < MaxClock
    /\ now' = now + 1
    /\ LET i == inflight[r].item
           tag == inflight[r].tag
       IN /\ tags' = IF tag \in DOMAIN tags THEN tags
                     ELSE tags @@ (tag :> inflight[r].name)
          /\ item_tags' = append_tag(item_tags, i, tag)
          /\ items' = [items EXCEPT ![i].updated_date = now']
    /\ inflight' = [inflight EXCEPT ![r].pc = "done", ![r].status = 200]
    /\ UNCHANGED <<hostVars, uploads, users, collections, images, shares, next_id, minted>>

\* POST /auth/register: the username check
register_user_begin(r, username, email, password) ==
    /\ r \in RequestIds \ DOMAIN inflight
    /\ IF \E u \in DOMAIN users : users[u].username = username
       THEN NoCommit
       ELSE /\ inflight' = inflight @@
                    (r :> InFlight("register_user", "email", NULL, username, email,
                                   password))
            /\ UNCHANGED <<hostVars, uploads, users, collections, items, images, tags, item_tags, shares,
                           next_id, minted, now>>

\* the email check: 400 "Email already registered" ends the request
register_user_email(r) ==
    /\ r \in DOMAIN inflight
    /\ inflight[r].op = "register_user"
    /\ inflight[r].pc = "email"
    /\ inflight' = [inflight EXCEPT ![r] =
            IF \E u \in DOMAIN users : users[u].email = inflight[r].email
            THEN [@ EXCEPT !.pc = "done", !.status = 400]
            ELSE [@ EXCEPT !.pc = "commit"]]
    /\ UNCHANGED <<hostVars, uploads, users, collections, items, images, tags, item_tags, shares,
                   next_id, minted, now>>

\* db.add(db_user); db.commit(): the INSERT fails on the unique indexes of
\* users.username and users.email
register_user_commit(r) ==
    /\ r \in DOMAIN inflight
    /\ inflight[r].op = "register_user"
    /\ inflight[r].pc = "commit"
    /\ IF \E u \in DOMAIN users : \/ users[u].username = inflight[r].name
                                  \/ users[u].email = inflight[r].email
       THEN /\ inflight' = [inflight EXCEPT ![r].pc = "done", ![r].status = 500]
            /\ UNCHANGED <<users, next_id>>
       ELSE /\ next_id.user <= MaxUsers
            /\ users' = users @@ (next_id.user :>
                    [username |-> inflight[r].name, email |-> inflight[r].email,
                     hashed_password |-> get_password_hash(inflight[r].password)])
            /\ next_id' = [next_id EXCEPT !.user = @ + 1]
            /\ inflight' = [inflight EXCEPT ![r].pc = "done", ![r].status = 201]
    /\ UNCHANGED <<hostVars, uploads, collections, items, images, tags, item_tags, shares, minted, now>>

NextRace ==
    \/ register_user("alice", "alice@x.com", "alicepw")
    \/ \E u \in DOMAIN users : create_collection(u)
    \/ \E u \in DOMAIN users, c \in DOMAIN collections : create_item(u, c)
    \/ \E r \in RequestIds, u \in DOMAIN users, i \in ItemIds, n \in TagNames :
            add_item_tags_begin(r, u, i, n)
    \/ \E r \in RequestIds : add_item_tags_query(r)
    \/ \E r \in RequestIds : add_item_tags_flush(r)
    \/ \E r \in RequestIds : add_item_tags_commit(r)
    \/ \E r \in RequestIds : respond(r)

SpecRace == Init /\ [][NextRace]_vars

\* C22: two add_item_tags requests racing on the same new name leave one
\* Tag row of that name, and each of them ends with the item associated
\* (200) or with a structured Conflict (409), never with an unhandled
\* storage error.
C22_RaceHandled ==
    [](/\ \A t1, t2 \in DOMAIN tags : tags[t1] = tags[t2] => t1 = t2
       /\ \A r \in DOMAIN inflight :
            inflight[r].op = "add_item_tags" => inflight[r].status \in {0, 200, 409})

\* C23: cleanup_unused_tags removes exactly the Tag rows no item is
\* associated with, keeps every other Tag row, changes no association and
\* returns the number of rows it removed; called again at once it returns 0.
C23_CleanupUnusedTags ==
    [][cleanup_unused_tags =>
        /\ DOMAIN tags' =
              {t \in DOMAIN tags : \E i \in DOMAIN items : t \in ItemTags(i)}
        /\ \A t \in DOMAIN tags' : tags'[t] = tags[t]
        /\ item_tags' = item_tags
        /\ cleanup_unused_tags_count =
              Cardinality(DOMAIN tags) - Cardinality(DOMAIN tags')
        /\ cleanup_unused_tags_count' = 0]_vars

\* C23 witness: of two tags created, the unused one is gone and the one an
\* item carries is kept
C23_OneRemoved ==
    /\ next_id.tag = 3
    /\ Cardinality(DOMAIN tags) = 1
    /\ \E i \in DOMAIN items : ItemTags(i) = DOMAIN tags

(***************************************************************************)
(* SpecAccount: two users who reach the scoped handlers through the        *)
(* bearer-token dependency, the account handlers and the token endpoints.  *)
(***************************************************************************)
NextAccount ==
    \/ register_user("alice", "alice@x.com", "alicepw")
    \/ register_user("bob", "bob@x.com", "bobpw")
    \/ \E token \in BearerTokens : unauthorized(token)
    \/ \E token \in BearerTokens : \E u \in get_current_user(token) :
            Cardinality(UserCollections(u)) < MaxOwned /\ create_collection(u)
    \/ \E token \in BearerTokens : \E u \in get_current_user(token) :
       \E c \in CollectionIds :
            Cardinality(CollectionItems(c)) < MaxOwned /\ create_item(u, c)
    \/ \E token \in BearerTokens : \E u \in get_current_user(token) :
       \E i \in ItemIds, names \in TagLists :
            Cardinality(ItemTags(i)) < MaxOwned /\ add_item_tags(u, i, names)
    \/ \E token \in BearerTokens : \E u \in get_current_user(token) :
       \E i \in ItemIds, files \in FileLists :
            Cardinality(ItemImages(i)) < MaxOwned /\ upload_item_images(u, i, files)
    \/ \E token \in BearerTokens : \E u \in get_current_user(token) :
       \E c \in CollectionIds, rotate \in BOOLEAN : create_or_enable_share(u, c, rotate)
    \/ \E token \in BearerTokens : \E u \in get_current_user(token) :
       \E new_username \in Usernames, current_password \in Passwords :
            update_user(u, new_username, current_password)
    \/ \E token \in BearerTokens : \E u \in get_current_user(token) :
       \E current_password \in Passwords : delete_account(u, current_password)
    \/ \E t \in Tokens : get_shared_collection(t)
    \/ \E refresh_token \in BearerTokens : refresh_access_token(refresh_token)

SpecAccount == Init /\ [][NextAccount]_vars

\* the rows below the collections cs: their items, the images of those and
\* the tokens of their share links
ItemsOf(cs) == UNION {CollectionItems(c) : c \in cs}
ImagesOf(is) == UNION {ItemImages(i) : i \in is}
TokensOf(cs) == {shares[s].token : s \in {x \in DOMAIN shares : shares[x].collection_id \in cs}}

\* C24: after delete_account succeeds none of the user's collections, nor
\* their items, images, item-tag associations and share links remain, the
\* share tokens no longer resolve, and no row references a deleted parent.
C24_AccountCascade ==
    /\ [](/\ \A c \in DOMAIN collections : collections[c].owner_id \in DOMAIN users
          /\ \A i \in DOMAIN items : items[i].collection_id \in DOMAIN collections
          /\ \A m \in DOMAIN images : images[m].item_id \in DOMAIN items
          /\ \A p \in DOMAIN item_tags : p[1] \in DOMAIN items
          /\ \A s \in DOMAIN shares : shares[s].collection_id \in DOMAIN collections)
    /\ [][\A u \in DOMAIN users, current_password \in Passwords :
            (vars' # vars /\ delete_account(u, current_password)) =>
              \A cs \in {UserCollections(u)} :
              \A is \in {ItemsOf(cs)} :
              \A ms \in {ImagesOf(is)} :
              \A ts \in {TokensOf(cs)} :
                /\ u \notin DOMAIN users'
                /\ DOMAIN collections' \cap cs = {}
                /\ DOMAIN items' \cap is = {}
                /\ DOMAIN images' \cap ms = {}
                /\ \A p \in DOMAIN item_tags' : p[1] \notin is
                /\ \A s \in DOMAIN shares' : shares'[s].collection_id \notin cs
                /\ \A t \in ts : (get_shared_collection_response(t))'.status = 404]_vars

(***************************************************************************)
(* Deletion and parent references, over SpecOwn.                           *)
(***************************************************************************)
\* C25: delete_collection removes the collection with all its items and
\* their images, delete_item removes the item with all its images, and no
\* orphan item or image row is ever stored.
C25_CascadeDelete ==
    /\ [](/\ \A i \in DOMAIN items : items[i].collection_id \in DOMAIN collections
          /\ \A m \in DOMAIN images : images[m].item_id \in DOMAIN items)
    /\ [][\A u \in DOMAIN users :
            /\ \A c \in DOMAIN collections :
                (vars' # vars /\ delete_collection(u, c)) =>
                  \A is \in {CollectionItems(c)} : \A ms \in {ImagesOf(is)} :
                    /\ c \notin DOMAIN collections'
                    /\ DOMAIN items' \cap is = {}
                    /\ DOMAIN images' \cap ms = {}
            /\ \A i \in DOMAIN items :
                (vars' # vars /\ delete_item(u, i)) =>
                  \A ms \in {ItemImages(i)} :
                    /\ i \notin DOMAIN items'
                    /\ DOMAIN images' \cap ms = {}]_vars

\* C26: no step changes the owner reference of a row that it keeps: the
\* owner_id of a collection, the collection_id of an item, the item_id of
\* an image.
C26_ParentNeverChanges ==
    [][/\ \A c \in DOMAIN collections \cap DOMAIN collections' :
            collections'[c].owner_id = collections[c].owner_id
       /\ \A i \in DOMAIN items \cap DOMAIN items' :
            items'[i].collection_id = items[i].collection_id
       /\ \A m \in DOMAIN images \cap DOMAIN images' :
            images'[m].item_id = images[m].item_id]_vars

\* the direct children of a collection with their orders, of an item with
\* their orders and its tags
ChildrenOfCollection(c) == {<<i, items[i].item_order>> : i \in CollectionItems(c)}
ChildrenOfItem(i) ==
    {<<"image", m, images[m].image_order>> : m \in ItemImages(i)}
    \cup {<<"tag", t, 0>> : t \in ItemTags(i)}

\* C27: created_date never changes, and a step that creates, deletes or
\* reorders the items of a collection advances the collection's
\* updated_date, as a step that adds, deletes or reorders the images or
\* tags of an item advances the item's updated_date.
C27_Timestamps ==
    [][/\ \A c \in DOMAIN collections \cap DOMAIN collections' :
            /\ collections'[c].created_date = collections[c].created_date
            /\ ChildrenOfCollection(c)' # ChildrenOfCollection(c) =>
                    collections'[c].updated_date > collections[c].updated_date
       /\ \A i \in DOMAIN items \cap DOMAIN items' :
            /\ items'[i].created_date = items[i].created_date
            /\ ChildrenOfItem(i)' # ChildrenOfItem(i) =>
                    items'[i].updated_date > items[i].updated_date]_vars

(***************************************************************************)
(* SpecSignup: registrations served concurrently, and username changes.    *)
(***************************************************************************)
NextSignup ==
    \/ \E r \in RequestIds, username \in Usernames, email \in Emails,
          password \in Passwords : register_user_begin(r, username, email, password)
    \/ \E r \in RequestIds : register_user_email(r)
    \/ \E r \in RequestIds : register_user_commit(r)
    \/ \E r \in RequestIds : respond(r)
    \/ \E u \in DOMAIN users, new_username \in Usernames, current_password \in Passwords :
            update_user(u, new_username, current_password)

SpecSignup == Init /\ [][NextSignup]_vars

\* C28: usernames and emails are unique; a registration with a taken
\* username or a taken email and an update_user to a username of another
\* user are each answered with a structured 400, whether the name was
\* taken before the request started or while it was being served.
C28_UniqueUsers ==
    [](/\ \A u, v \in DOMAIN users :
            (users[u].username = users[v].username \/ users[u].email = users[v].email)
                => u = v
       /\ \A u \in DOMAIN users, email \in Emails :
            /\ register_user_response(users[u].username, email).status = 400
            /\ register_user_response(users[u].username, email).detail =
                  "Username already registered"
       /\ \A u \in DOMAIN users, username \in Usernames :
            (\A v \in DOMAIN users : users[v].username # username) =>
            /\ register_user_response(username, users[u].email).status = 400
            /\ register_user_response(username, users[u].email).detail =
                  "Email already registered"
       /\ \A u, v \in DOMAIN users : u # v =>
            \A current_password \in Passwords :
              verify_password(current_password, users[u].hashed_password) =>
                /\ update_user_response(u, users[v].username, current_password).status = 400
                /\ update_user_response(u, users[v].username, current_password).detail =
                      "Username already taken"
       /\ \A r \in DOMAIN inflight :
            inflight[r].op = "register_user" => inflight[r].status \in {0, 201, 400})

(***************************************************************************)
(* Bearer tokens, over SpecAccount.                                        *)
(***************************************************************************)
\* a token that is presented, verifies, has not expired and whose subject
\* is the username of a stored user
ValidBearer(token) ==
    /\ token.header
    /\ token.signed
    /\ ~ token.expired
    /\ \E u \in DOMAIN users : users[u].username = token.sub

\* C29: a request to a scoped endpoint without a token, with a token that
\* does not validate or with one whose subject is no stored user is
\* answered 401, reaches no handler and changes nothing; a valid token
\* resolves to the user of its subject.
C29_BearerRequired ==
    /\ [](\A token \in BearerTokens :
            IF ValidBearer(token)
            THEN /\ get_current_user_response(token).status = 200
                 /\ \A u \in get_current_user(token) : users[u].username = token.sub
            ELSE /\ get_current_user_response(token).status = 401
                 /\ get_current_user(token) = {})
    /\ [][\A token \in BearerTokens :
            (~ ValidBearer(token) /\ unauthorized(token)) => vars' = vars]_vars

\* C29 witness: an account was deleted while another user is stored, so a
\* signed, unexpired token can name a subject that is no longer a user
C29_SubjectDeleted ==
    /\ DOMAIN users # {}
    /\ Cardinality(DOMAIN users) < next_id.user - 1
    /\ \E token \in BearerTokens :
        /\ token.header /\ token.signed /\ ~ token.expired /\ token.sub # NoSub
        /\ ~ ValidBearer(token)

\* C30: refresh_access_token answers a valid refresh token of a stored
\* user with 200 and a new token pair, and an invalid token or one of a
\* user that no longer exists with 401.
C30_RefreshRotates ==
    [](\A refresh_token \in BearerTokens :
        IF /\ refresh_token.signed
           /\ ~ refresh_token.expired
           /\ \E u \in DOMAIN users : users[u].username = refresh_token.sub
        THEN refresh_access_token_response(refresh_token).status = 200
        ELSE refresh_access_token_response(refresh_token).status = 401)

(***************************************************************************)
(* Files of the upload directory, over SpecImages.                         *)
(***************************************************************************)
\* C39: a rejected update_item_images loses no file of a record that is
\* still stored: every image row that had its file before the request has
\* it after the rejection.
C39_RejectedKeepsFiles ==
    [][\/ uploads' = uploads
       \/ \A u \in DOMAIN users : \A i \in OwnItems(u) :
            \A deleted \in SUBSET ImageIds, files \in FileLists,
               order \in ImageOrderBodies :
                (/\ update_item_images_response(u, i, deleted, files, order).status # 200
                 /\ update_item_images(u, i, deleted, files, order))
                    => \A m \in DOMAIN images' : m \in uploads => m \in uploads']_vars

\* C38: update_item_images for item i neither deletes nor reorders an
\* image of another item, whatever the deletion list and the order list
\* name.
C38_OtherItemsUntouched ==
    [][\/ images' = images
       \/ \A u \in DOMAIN users : \A i \in OwnItems(u) :
            \A deleted \in SUBSET ImageIds, files \in FileLists,
               order \in ImageOrderBodies :
                update_item_images(u, i, deleted, files, order)
                    => \A m \in DOMAIN images :
                            images[m].item_id # i
                                => m \in DOMAIN images' /\ images'[m] = images[m]]_vars

\* the order list names a temporary id that no file of the request has
UnknownTempId(files, order) ==
    \E k \in DOMAIN order : order[k].kind = "new" /\ order[k].v >= Len(files)

NextContact ==
    \/ \E ip \in ClientIps, mail \in MailOutcomes : submit_contact_form(ip, mail)
    \/ \E ip \in ClientIps : get_rate_limit_info(ip)
    \/ time_passes

SpecContact == Init /\ [][NextContact]_vars

\* the submissions of ip the limiter let through at a time in times
RECURSIVE AcceptedIn(_, _)
AcceptedIn(ip, times) ==
    IF times = {}
    THEN 0
    ELSE LET t == CHOOSE x \in times : TRUE
         IN (IF <<ip, t>> \in DOMAIN accepted THEN accepted[<<ip, t>>] ELSE 0)
                + AcceptedIn(ip, times \ {t})

\* the window of ip is running
InWindow(ip) ==
    /\ ip \in DOMAIN rate_limit_store
    /\ now - rate_limit_store[ip].window_start < RATE_LIMIT_WINDOW_SECONDS

\* C31: per client address, counted from the first submission of a window,
\* the first RATE_LIMIT_MAX_REQUESTS submissions inside the window pass the
\* limiter and every further one inside it is answered 429 'Rate limit
\* exceeded'; a submission of one address changes nothing of another.
C31_RateLimit ==
    /\ [](\A ip \in ClientIps :
            /\ ip \notin DOMAIN rate_limit_store =>
                /\ AcceptedIn(ip, 0..MaxTime) = 0
                /\ ~check_rate_limit(ip).exceeded
            /\ ip \in DOMAIN rate_limit_store =>
                /\ rate_limit_store[ip].count \in 1..RATE_LIMIT_MAX_REQUESTS
                /\ rate_limit_store[ip].count =
                        AcceptedIn(ip, rate_limit_store[ip].window_start..MaxTime)
            /\ InWindow(ip) =>
                /\ check_rate_limit(ip).exceeded
                        <=> rate_limit_store[ip].count = RATE_LIMIT_MAX_REQUESTS
                /\ \A mail \in MailOutcomes :
                     /\ check_rate_limit(ip).exceeded
                            <=> submit_contact_form_response(ip, mail).status = 429
                     /\ check_rate_limit(ip).exceeded
                            <=> submit_contact_form_response(ip, mail).detail
                                    = "Rate limit exceeded")
    /\ [][\/ hostVars' = hostVars
          \/ \A ip \in ClientIps, mail \in MailOutcomes :
                submit_contact_form(ip, mail) =>
                    \A other \in ClientIps \ {ip} :
                        /\ other \in DOMAIN rate_limit_store'
                                <=> other \in DOMAIN rate_limit_store
                        /\ other \in DOMAIN rate_limit_store
                                => rate_limit_store'[other] = rate_limit_store[other]
                        /\ AcceptedIn(other, 0..MaxTime)'
                                = AcceptedIn(other, 0..MaxTime)]_vars

\* C31 witness: one address has used up its window and is refused while the
\* other address, which submitted once in the same window, is let through
C31_OneFullOneOpen ==
    \E ip \in ClientIps : \E other \in ClientIps \ {ip} :
        /\ InWindow(ip) /\ InWindow(other)
        /\ AcceptedIn(ip, rate_limit_store[ip].window_start..MaxTime)
                = RATE_LIMIT_MAX_REQUESTS
        /\ submit_contact_form_response(ip, "sent").status = 429
        /\ rate_limit_store[other].count = 1
        /\ submit_contact_form_response(other, "sent").status = 200

\* C32: check_rate_limit is a sliding window: for every address and every
\* interval of RATE_LIMIT_WINDOW_SECONDS, wherever it starts, at most
\* RATE_LIMIT_MAX_REQUESTS submissions of the address pass the limiter
\* inside the interval.
C32_SlidingWindow ==
    \A ip \in ClientIps : \A start \in 0..MaxTime :
        AcceptedIn(ip, start..(start + RATE_LIMIT_WINDOW_SECONDS - 1))
            <= RATE_LIMIT_MAX_REQUESTS

\* C40: a refused submission changes neither the count nor the window start
\* of its address; at or after window_start + RATE_LIMIT_WINDOW_SECONDS the
\* next submission of the address passes and starts a window with count 1;
\* get_rate_limit_remaining is in 0..RATE_LIMIT_MAX_REQUESTS.
C40_Recovery ==
    /\ [](\A ip \in ClientIps :
            /\ get_rate_limit_remaining(rate_limit_store, ip)
                    \in 0..RATE_LIMIT_MAX_REQUESTS
            /\ get_rate_limit_remaining(check_rate_limit(ip).store, ip)
                    \in 0..RATE_LIMIT_MAX_REQUESTS
            /\ (/\ ip \in DOMAIN rate_limit_store
                /\ now >= rate_limit_store[ip].window_start + RATE_LIMIT_WINDOW_SECONDS)
                    => /\ ~check_rate_limit(ip).exceeded
                       /\ check_rate_limit(ip).store[ip] = Window(1, now))
    /\ [][\/ vars' = vars
          \/ \A ip \in ClientIps, mail \in MailOutcomes :
                (/\ submit_contact_form_response(ip, mail).status = 429
                 /\ submit_contact_form(ip, mail))
                    => /\ rate_limit_store' = rate_limit_store
                       /\ accepted' = accepted]_vars

\* C40 witness: an address that used up a window, whose window is over and
\* whose next submission is accepted with all but one request remaining
C40_WindowOver ==
    \E ip \in ClientIps :
        /\ ip \in DOMAIN rate_limit_store
        /\ rate_limit_store[ip].count = RATE_LIMIT_MAX_REQUESTS
        /\ now >= rate_limit_store[ip].window_start + RATE_LIMIT_WINDOW_SECONDS
        /\ submit_contact_form_response(ip, "sent").status = 200
        /\ submit_contact_form_response(ip, "sent").remaining_requests
                = RATE_LIMIT_MAX_REQUESTS - 1

\* C33: update_item changes nothing but the updated_date of its item (name
\* and description are not columns of the model): item_order,
\* collection_id, the tags and the images of the item and every other row
\* stay as they were; update_collection likewise changes nothing but the
\* updated_date of its collection.
C33_UpdateFrame ==
    [][\/ now' = now
       \/ /\ \A u \in DOMAIN users : \A i \in DOMAIN items :
                update_item(u, i) =>
                    /\ DOMAIN items' = DOMAIN items
                    /\ items' = [items EXCEPT ![i].updated_date = items'[i].updated_date]
                    /\ ItemTags(i)' = ItemTags(i)
                    /\ ItemImages(i)' = ItemImages(i)
                    /\ UNCHANGED <<users, collections, images, tags, item_tags, shares,
                                   uploads, next_id>>
          /\ \A u \in DOMAIN users : \A c \in DOMAIN collections :
                update_collection(u, c) =>
                    /\ DOMAIN collections' = DOMAIN collections
                    /\ collections' = [collections EXCEPT
                                        ![c].updated_date = collections'[c].updated_date]
                    /\ CollectionItems(c)' = CollectionItems(c)
                    /\ UNCHANGED <<users, items, images, tags, item_tags, shares,
                                   uploads, next_id>>]_vars

\* C33 witness: a user whose item has an image, and who may update the item
\* and its collection
C33_UpdatableItem ==
    \E u \in DOMAIN users : \E i \in OwnItems(u) :
        /\ ItemImages(i) # {}
        /\ now < MaxClock
        /\ update_item_response(u, i).status = 200
        /\ update_collection_response(u, items[i].collection_id).status = 200

(***************************************************************************)
(* SpecSession: two usernames that register, log in, rename and delete     *)
(* their account, with the bearer-token dependency in front.               *)
(***************************************************************************)
NextSession ==
    \/ register_user("alice", "alice@x.com", "alicepw")
    \/ register_user("bob", "bob@x.com", "bobpw")
    \/ \E username \in Usernames, password \in Passwords :
            login_for_access_token(username, password)
    \/ \E token \in BearerTokens : unauthorized(token)
    \/ \E token \in BearerTokens : \E u \in get_current_user(token) :
       \E new_username \in Usernames, current_password \in Passwords :
            update_user(u, new_username, current_password)
    \/ \E token \in BearerTokens : \E u \in get_current_user(token) :
       \E current_password \in Passwords : delete_account(u, current_password)

SpecSession == Init /\ [][NextSession]_vars

\* C37: a token never resolves to a user other than the one it was built
\* for: whatever renames, account deletions and registrations follow,
\* get_current_user on a signed, unexpired token built for user u returns u
\* or fails with 401.
C37_TokenKeepsItsUser ==
    \A t \in issued :
        \A token \in {[header |-> TRUE, sub |-> t[1], signed |-> TRUE, expired |-> FALSE]} :
            /\ get_current_user_response(token).status \in {200, 401}
            /\ get_current_user(token) \subseteq {t[2]}

(***************************************************************************)
(* Reorders and creations served concurrently.  A handler reads in its own *)
(* session, then commits: the unit of work writes an UPDATE for the        *)
(* columns whose value differs from the one the session loaded, and the    *)
(* INSERT of a new row carries the order computed when the handler read.   *)
(* The engine is created without an isolation level, so a commit does not  *)
(* fail for what another session committed since the read.                 *)
(***************************************************************************)
Overlapping(op, c, item_ids, loaded, order) ==
    [op |-> op, pc |-> "commit", collection |-> c, item_ids |-> item_ids,
     loaded |-> loaded, next_order |-> order]

\* PATCH /collections/{collection_id}/items/order up to the loop: the rows
\* are loaded with the item_order they have now (collections.py 258-282)
update_item_order_begin(r, u, c, body) ==
    /\ u \in DOMAIN users
    /\ r \in RequestIds \ DOMAIN inflight
    /\ IF update_item_order_response(u, c, body).status # 200
       THEN NoCommit
       ELSE /\ inflight' = inflight @@
                    (r :> Overlapping("update_item_order", c, body.item_ids,
                            [i \in CollectionItems(c) |-> items[i].item_order], 0))
            /\ UNCHANGED <<hostVars, uploads, users, collections, items, images, tags,
                           item_tags, shares, next_id, minted, now>>

\* the UPDATEs of the flush: item_order is written where the value set
\* differs from the value loaded, updated_date in every row
RECURSIVE flush_item_order(_, _, _, _, _)
flush_item_order(its, item_ids, loaded, k, t) ==
    IF k > Len(item_ids)
    THEN its
    ELSE LET iid == item_ids[k]
         IN flush_item_order(
                [its EXCEPT ![iid].item_order =
                                IF enumerate(k) # loaded[iid] THEN enumerate(k) ELSE @,
                            ![iid].updated_date = t],
                item_ids, loaded, k + 1, t)

\* db.commit() of update_item_order (collections.py 284-292), answered 200
update_item_order_commit(r) ==
    /\ r \in DOMAIN inflight
    /\ inflight[r].op = "update_item_order"
    /\ inflight[r].item_ids \in SeqsUpTo(DOMAIN items, MaxList)
    /\ inflight[r].collection \in DOMAIN collections
    /\ now < MaxClock
    /\ now' = now + 1
    /\ items' = flush_item_order(items, inflight[r].item_ids, inflight[r].loaded, 1, now')
    /\ collections' = [collections EXCEPT ![inflight[r].collection].updated_date = now']
    /\ inflight' = [q \in DOMAIN inflight \ {r} |-> inflight[q]]
    /\ UNCHANGED <<hostVars, uploads, users, images, tags, item_tags, shares, next_id, minted>>

\* POST /collections/{collection_id}/items up to next_order
\* (collections.py 207-213)
create_item_begin(r, u, c) ==
    /\ u \in DOMAIN users
    /\ r \in RequestIds \ DOMAIN inflight
    /\ IF create_item_response(u, c).status # 201
       THEN NoCommit
       ELSE /\ inflight' = inflight @@
                    (r :> Overlapping("create_item", c, <<>>, <<>>,
                            next_order({items[i].item_order : i \in CollectionItems(c)})))
            /\ UNCHANGED <<hostVars, uploads, users, collections, items, images, tags,
                           item_tags, shares, next_id, minted, now>>

\* db.add(new_item); db.commit() (collections.py 215-231), answered 201
create_item_commit(r) ==
    /\ r \in DOMAIN inflight
    /\ inflight[r].op = "create_item"
    /\ inflight[r].collection \in DOMAIN collections
    /\ now < MaxClock
    /\ now' = now + 1
    /\ next_id.item <= MaxItems
    /\ items' = items @@ (next_id.item :>
            [collection_id |-> inflight[r].collection,
             item_order |-> inflight[r].next_order,
             created_date |-> now', updated_date |-> now'])
    /\ collections' = [collections EXCEPT ![inflight[r].collection].updated_date = now']
    /\ next_id' = [next_id EXCEPT !.item = @ + 1]
    /\ inflight' = [q \in DOMAIN inflight \ {r} |-> inflight[q]]
    /\ UNCHANGED <<hostVars, uploads, users, images, tags, item_tags, shares, minted>>

(***************************************************************************)
(* SpecOverlap: one user, one collection, and up to MaxRequests creations  *)
(* and reorders of its items in flight together.                           *)
(***************************************************************************)
NextOverlap ==
    \/ register_user("alice", "alice@x.com", "alicepw")
    \/ \E u \in UserIds : Cardinality(UserCollections(u)) < MaxOwned /\ create_collection(u)
    \/ \E r \in RequestIds, u \in UserIds, c \in CollectionIds : create_item_begin(r, u, c)
    \/ \E r \in RequestIds : create_item_commit(r)
    \/ \E r \in RequestIds, u \in UserIds, c \in CollectionIds, l \in ItemIdLists :
            update_item_order_begin(r, u, c, ItemIdsBody(l))
    \/ \E r \in RequestIds : update_item_order_commit(r)

SpecOverlap == Init /\ [][NextOverlap]_vars

\* the items of collection c have pairwise different orders
DistinctOrders(c) ==
    \A i, j \in CollectionItems(c) : i # j => items[i].item_order # items[j].item_order

\* C34: a reorder that read distinct orders and commits while the
\* collection has the items of its list, with distinct orders, leaves
\* exactly the orders of its list, whatever another reorder of the same
\* collection committed since it read: of two overlapping reorders the one
\* that commits last wins whole, and the orders stay distinct.
C34_LastCommitWins ==
    [][\A r \in DOMAIN inflight :
        (/\ inflight[r].op = "update_item_order"
         /\ Range(inflight[r].item_ids) = CollectionItems(inflight[r].collection)
         /\ DistinctOrders(inflight[r].collection)
         /\ \A i, j \in DOMAIN inflight[r].loaded :
                i # j => inflight[r].loaded[i] # inflight[r].loaded[j]
         /\ update_item_order_commit(r)) =>
            \A item_ids \in {inflight[r].item_ids}, c \in {inflight[r].collection} :
                /\ \A k \in DOMAIN item_ids : items'[item_ids[k]].item_order = enumerate(k)
                /\ DistinctOrders(c)']_vars

\* C35: a creation that commits gives its item an order that no item of the
\* collection has, also when another creation for the same collection read
\* before it committed.
C35_CreatedOrderUnique ==
    [][\A r \in DOMAIN inflight :
        (inflight[r].op = "create_item" /\ create_item_commit(r)) =>
            \A i \in CollectionItems(inflight[r].collection) :
                items'[next_id.item].item_order # items[i].item_order]_vars
====
